---------------------------- MODULE Spec2Model ----------------------------
(***************************************************************************)
(* Model of the reporting pipeline of otel-profiling-agent:                *)
(*   - reporter/otlp_reporter.go : the bounded fact caches, the ingestion  *)
(*     API, the profile snapshot encoder (getProfile);                     *)
(*   - symuploader (ParcaSymbolUploader) : Upload / attemptUpload.         *)
(* Every cache is a go-freelru SyncedLRU: a bounded key/value store with   *)
(* least-recently-used eviction and optional per-entry lifetimes.  A cache *)
(* is modelled as the sequence of its entries, most recently used first.   *)
(***************************************************************************)
EXTENDS Integers, Sequences, FiniteSets, TLC

(***************************************************************************)
(* Bounds of the model.                                                    *)
(***************************************************************************)
NumFiles == 2
NumCallers == 2
MaxTasks == 2
NumHashes == 2
MaxStamps == 2
MaxCount == 2
MaxTime == 2
MaxIngested == 2
NumThreads == 2
MaxMaps == 3
NumAddrs == 2

(***************************************************************************)
(* Program constants.                                                      *)
(***************************************************************************)
\* 5*time.Minute, the lifetime of a cooldown entry of the retry cache; the
\* clock of the model counts in units of five minutes.
Cooldown == 1

\* c.Times.ReportInterval(), in seconds: a positive duration of the
\* configuration.
ReportInterval == 5

FileIDs == 1..NumFiles
Callers == 1..NumCallers
Tasks == 1..MaxTasks
Hashes == 1..NumHashes
Threads == 1..NumThreads
Addrs == 1..NumAddrs

VARIABLES
  \* ---- configuration fixed at construction
  cacheSize,        \* capacity of every LRU (config.TraceCacheEntries())
  keepTextSection,  \* ParcaSymbolUploader.keepTextSection
  \* ---- ParcaSymbolUploader
  retry,            \* u.retry        : LRU FileID -> bool, with lifetimes
  singleflight,     \* u.singleflight : LRU FileID -> bool
  cachedFile,       \* the file u.tmp/<fileID> of the extraction cache
  origRemoved,      \* the executable at the path given to Upload was deleted
  call,             \* the Upload call each caller is in, if any
  task,             \* the goroutines spawned by Upload
  \* ---- OTLPReporter
  otlpBuildIDMode,  \* r.otlpBuildIDMode
  traces,           \* r.traces          : LRU TraceHash -> traceInfo
  samples,          \* r.samples         : LRU TraceHash -> sample
  fallbackSymbols,  \* r.fallbackSymbols : LRU FrameID -> string
  executables,      \* r.executables     : LRU FileID -> execInfo
  frames,           \* r.frames          : LRU FileID -> reference to a map
  maps,             \* the maps AddressOrLineno -> sourceInfo, by reference
  phase,            \* reportOTLPProfile: "idle", or "built" once getProfile ran
  profile,          \* the profile the last getProfile returned
  startTS, endTS,   \* the timestamps the last getProfile returned
  \* ---- history of the reporter (observations only, never read by the code)
  drained,          \* the sample cache as the last getProfile found it
  applied,          \* per hash, the calls merged into its traces entry
  everShaped,       \* the hashes ReportFramesForTrace was ever called for
  \* ---- calls and rounds of the reporter that run step by step
  ingest,           \* the ReportCountForTrace call of the collector thread
  drain,            \* the getProfile call of the reporting goroutine
  fb,               \* the ReportFallbackSymbol call of each thread
  fm,               \* the FrameMetadata call of each thread
  ingested,         \* per hash, the sum of the counts stored by ingest
  emitted,          \* per hash, the sum of the values drain has emitted
  \* ---- the goroutines StartOTLP spawns
  driver,           \* the tick loop, the shutdown watcher and their channels
  enc,              \* the getProfile call that builds its profile step by step
  shaping,          \* the ReportFramesForTrace call that runs step by step
  reported          \* per hash, what ReportCountForTrace was given since the
                    \* last round that took the counter of the hash, and
                    \* whether the sample cache has evicted that counter

uvars == <<retry, singleflight, cachedFile, origRemoved, call, task>>

rvars == <<otlpBuildIDMode, traces, samples, fallbackSymbols, executables,
           frames, maps, phase, profile, startTS, endTS, drained, applied,
           everShaped>>

tvars == <<ingest, drain, fb, fm, ingested, emitted>>

vars == <<reported, enc, driver, shaping, cacheSize, keepTextSection, uvars, rvars, tvars>>

(***************************************************************************)
(* The LRU cache (github.com/elastic/go-freelru SyncedLRU).  An entry is   *)
(* [k, v, timed, left, by]: key, value, whether it was added with a        *)
(* lifetime, what is left of that lifetime, and the place of the code that *)
(* stored it (an observation: the code never reads it).  Every operation   *)
(* is atomic (the SyncedLRU takes its mutex for each call).                *)
(***************************************************************************)
Entry(k, v, by) == [k |-> k, v |-> v, timed |-> FALSE, left |-> 0, by |-> by]

EntryWithLifetime(k, v, lifetime, by) ==
  [k |-> k, v |-> v, timed |-> TRUE, left |-> lifetime, by |-> by]

LruKeySet(c) == {c[i].k : i \in 1..Len(c)}

LruPos(c, k) == CHOOSE i \in 1..Len(c) : c[i].k = k

LruWithout(c, k) == SelectSeq(c, LAMBDA e : e.k # k)

\* The entry of k is in the cache and has not expired.
LruLive(c, k) ==
  /\ k \in LruKeySet(c)
  /\ c[LruPos(c, k)].timed => c[LruPos(c, k)].left > 0

\* Keys(): the keys of the entries that have not expired.
LruKeys(c) == {k \in LruKeySet(c) : LruLive(c, k)}

\* The value Peek and Get return for a live key.
LruValue(c, k) == c[LruPos(c, k)].v

\* The cache after Get(k): a hit moves the entry to the head, an expired
\* entry is removed, a miss changes nothing.  Peek changes nothing.
LruAfterGet(c, k) ==
  IF k \notin LruKeySet(c) THEN c
  ELSE IF LruLive(c, k) THEN <<c[LruPos(c, k)]>> \o LruWithout(c, k)
  ELSE LruWithout(c, k)

\* The key Add of a new key evicts: the least recently used one of a full cache.
LruVictims(c, k, cap) ==
  IF k \notin LruKeySet(c) /\ Len(c) >= cap /\ Len(c) > 0
  THEN {c[Len(c)].k} ELSE {}

\* The cache after Add / AddWithLifetime of entry e: an existing key is
\* replaced and moved to the head; a new key evicts the tail of a full cache.
LruAdd(c, e, cap) ==
  IF e.k \in LruKeySet(c) THEN <<e>> \o LruWithout(c, e.k)
  ELSE IF Len(c) >= cap THEN <<e>> \o SubSeq(c, 1, cap - 1)
  ELSE <<e>> \o c

\* The cache after Remove(k).
LruRemove(c, k) == LruWithout(c, k)

\* The clock advances by one unit: every running lifetime loses one.
LruTick(c) ==
  [i \in 1..Len(c) |->
     IF c[i].timed /\ c[i].left > 0
     THEN [c[i] EXCEPT !.left = c[i].left - 1] ELSE c[i]]

(***************************************************************************)
(* ParcaSymbolUploader.                                                    *)
(***************************************************************************)
\* A caller outside Upload, and a goroutine slot not in use.
NoCall ==
  [pc |-> "idle", file |-> 0, inFlight |-> FALSE, cool |-> "no",
   empty |-> FALSE, durable |-> FALSE, after |-> "none"]

\* out is how the attempt of the task ended: with an error of a remote call
\* ("transient"), with a do-not-retry entry without expiry ("durable"), or
\* otherwise ("other").  answer is what the step that brought the task to
\* its position was answered, "finished" once MarkUploadFinished succeeded.
FreeTask == [pc |-> "free", file |-> 0, out |-> "none", answer |-> "none"]

\* The positions of a task inside attemptUpload (its deferred Add included).
AttemptPcs ==
  {"authorize", "materialize", "extract", "initiate", "put", "finish", "ret"}

\* An attempt for fileID f has started and attemptUpload has not returned.
Running(f) == \E t \in Tasks : task[t].file = f /\ task[t].pc \in AttemptPcs

\* The retry entry of f was stored for an "upload in progress" answer.
InProgressEntry(f) ==
  f \in LruKeySet(retry) /\ retry[LruPos(retry, f)].by = "inprogress"

\* Upload, lines 89-92: retry, ok := u.retry.Get(fileID); ok && !retry.
RetryDeniesInverted(f) == LruLive(retry, f) /\ LruValue(retry, f)

RetryDenies(f) == LruLive(retry, f) /\ ~LruValue(retry, f)

\* Upload, lines 95-98: singleflight, ok := u.singleflight.Get(fileID);
\* ok || singleflight.  The value of a miss is the zero value, false.
SingleflightBusyWrongCache(f) == LruLive(retry, f)

SingleflightBusy(f) ==
  LruLive(singleflight, f) \/ (LruLive(singleflight, f) /\ LruValue(singleflight, f))

\* Upload, lines 85-87: buildID == "".
NoBuildIDIgnored(b) == FALSE

NoBuildID(b) == b = ""

\* The retry entry of f is a do-not-retry entry without expiry.
DurableEntry(f) ==
  LruLive(retry, f) /\ ~LruValue(retry, f) /\ ~retry[LruPos(retry, f)].timed

\* No goroutine of Upload for f exists, the last one ended with an error of
\* a remote call, and the retry cache holds nothing for f.
AfterTransient(f) ==
  /\ \A t \in Tasks : task[t].file # f
  /\ f \notin LruKeySet(retry)
  /\ LruLive(singleflight, f)
  /\ singleflight[LruPos(singleflight, f)].by = "transient"

\* Upload, lines 84-92: the build ID check and the retry cache lookup.  The
\* call records what held when it was made: whether an attempt for f was
\* running, whether an in-progress cooldown entry was live or expired,
\* whether the build ID was empty, whether a do-not-retry entry without
\* expiry was stored, and whether the last attempt had failed transiently.
UploadEnter(c, f, b) ==
  /\ call[c].pc = "idle"
  /\ LET made == [pc |-> "done", file |-> f,
                  inFlight |-> b # "" /\ Running(f),
                  cool |-> IF ~InProgressEntry(f) THEN "no"
                           ELSE IF LruLive(retry, f) THEN "live"
                           ELSE IF b # "" /\ ~Running(f) THEN "expired"
                           ELSE "no",
                  empty |-> b = "",
                  durable |-> b # "" /\ DurableEntry(f),
                  after |-> IF b # "" /\ AfterTransient(f) THEN "transient"
                            ELSE "none"]
     IN IF NoBuildID(b)
        THEN /\ call' = [call EXCEPT ![c] = made]
             /\ UNCHANGED retry
        ELSE /\ retry' = LruAfterGet(retry, f)
             /\ call' = [call EXCEPT ![c] =
                  IF RetryDenies(f) THEN made ELSE [made EXCEPT !.pc = "sfGet"]]
  /\ UNCHANGED <<rvars, tvars, reported, enc, driver, shaping, cacheSize, keepTextSection, singleflight, cachedFile,
                 origRemoved, task>>

\* Upload, lines 95-98: the singleflight lookup.
UploadSingleflightGet(c) ==
  /\ call[c].pc = "sfGet"
  /\ singleflight' = LruAfterGet(singleflight, call[c].file)
  /\ call' = [call EXCEPT ![c].pc =
                IF SingleflightBusy(call[c].file) THEN "done" ELSE "sfAdd"]
  /\ UNCHANGED <<rvars, tvars, reported, enc, driver, shaping, cacheSize, keepTextSection, retry, cachedFile, origRemoved,
                 task>>

\* Upload, lines 99-107: mark the file in flight and start the goroutine.
UploadSpawn(c) ==
  /\ call[c].pc = "sfAdd"
  /\ \E t \in Tasks :
       /\ task[t].pc = "free"
       /\ \A t2 \in Tasks : t2 < t => task[t2].pc # "free"
       /\ task' = [task EXCEPT ![t] = [pc |-> "authorize", file |-> call[c].file,
                                       out |-> "none", answer |-> "none"]]
  /\ singleflight' = LruAdd(singleflight, Entry(call[c].file, TRUE, "other"),
                            cacheSize)
  /\ call' = [call EXCEPT ![c].pc = "started"]
  /\ UNCHANGED <<rvars, tvars, reported, enc, driver, shaping, cacheSize, keepTextSection, retry, cachedFile, origRemoved>>

\* Upload returns to its caller.
UploadReturn(c) ==
  /\ call[c].pc \in {"done", "started"}
  /\ call' = [call EXCEPT ![c] = NoCall]
  /\ UNCHANGED <<rvars, tvars, reported, enc, driver, shaping, cacheSize, keepTextSection, retry, singleflight, cachedFile,
                 origRemoved, task>>

\* The task moves on to position pc.
TaskAt(t, pc) == [task EXCEPT ![t].pc = pc]

\* attemptUpload returns: its deferred call is next.
TaskEnds(t, out) ==
  [task EXCEPT ![t].pc = "ret", ![t].out = out, ![t].answer = "none"]

\* The step of the task was answered with answer and the task moves on to pc.
TaskGot(t, pc, answer) == [task EXCEPT ![t].pc = pc, ![t].answer = answer]

\* attemptUpload returns because the payload has size zero.
TaskEndsEmpty(t, out) == [TaskEnds(t, out) EXCEPT ![t].answer = "empty"]

\* u.retry.Add(fileID, false): the do-not-retry entry without expiry.
DoNotRetryExpiring(f) == EntryWithLifetime(f, FALSE, Cooldown, "other")

DoNotRetry(f) == Entry(f, FALSE, "other")

\* The singleflight entry the deferred calls of task t store.
Concluded(t) ==
  Entry(task[t].file, FALSE,
        IF task[t].out = "transient" THEN "transient" ELSE "other")

\* attemptUpload, lines 113-128: the ShouldInitiateUpload call and its answer.
Authorize(t) ==
  /\ task[t].pc = "authorize"
  /\ \E resp \in {"error", "inprogress", "denied", "allow"} :
       CASE resp = "error" ->
              /\ task' = TaskEnds(t, "transient")
              /\ UNCHANGED retry
         [] resp = "inprogress" ->
              /\ retry' = LruAdd(retry,
                   EntryWithLifetime(task[t].file, FALSE, Cooldown, "inprogress"),
                   cacheSize)
              /\ task' = TaskEnds(t, "other")
         [] resp = "denied" ->
              /\ retry' = LruAdd(retry, DoNotRetry(task[t].file), cacheSize)
              /\ task' = TaskEnds(t, "durable")
         [] resp = "allow" ->
              /\ task' = TaskGot(t, "materialize", resp)
              /\ UNCHANGED retry
  /\ UNCHANGED <<rvars, tvars, reported, enc, driver, shaping, cacheSize, keepTextSection, singleflight, cachedFile,
                 origRemoved, call>>

\* attemptUpload, lines 134-156: the payload is the original file, which the
\* environment may have removed, left empty, or made unreadable.
MaterializeFull(t) ==
  /\ task[t].pc = "materialize"
  /\ keepTextSection
  /\ \E found \in {"missing", "ioerror", "empty", "data"} :
       CASE found \in {"missing", "ioerror"} ->
              /\ task' = TaskEnds(t, "other")
              /\ UNCHANGED retry
         [] found = "empty" ->
              /\ retry' = LruAdd(retry, DoNotRetry(task[t].file), cacheSize)
              /\ task' = TaskEndsEmpty(t, "durable")
         [] found = "data" ->
              /\ task' = TaskGot(t, "initiate", found)
              /\ UNCHANGED retry
  /\ UNCHANGED <<rvars, tvars, reported, enc, driver, shaping, cacheSize, keepTextSection, singleflight, cachedFile,
                 origRemoved, call>>

\* attemptUpload, lines 157-187: the payload is the file left in the cache
\* directory, or the file os.Create makes there for the extraction.
MaterializeExtract(t) ==
  /\ task[t].pc = "materialize"
  /\ ~keepTextSection
  /\ LET f == task[t].file IN
       \/ /\ cachedFile[f] = "data"           \* lines 161-173: reuse the file
          /\ task' = TaskGot(t, "initiate", "data")
          /\ UNCHANGED cachedFile
       \/ /\ cachedFile[f] # "absent"         \* lines 165, 171: return err
          /\ task' = TaskEnds(t, "other")
          /\ UNCHANGED cachedFile
       \/ /\ cachedFile[f] = "empty"          \* lines 175-179
          /\ cachedFile' = [cachedFile EXCEPT ![f] = "absent"]
          /\ task' = TaskEndsEmpty(t, "other")
       \/ /\ cachedFile[f] = "absent"         \* line 224: return err
          /\ task' = TaskEnds(t, "other")
          /\ UNCHANGED cachedFile
       \/ /\ cachedFile[f] = "absent"         \* line 182: os.Create
          /\ cachedFile' = [cachedFile EXCEPT ![f] = "empty"]
          /\ task' = TaskAt(t, "extract")
  /\ UNCHANGED <<rvars, tvars, reported, enc, driver, shaping, cacheSize, keepTextSection, retry, singleflight, origRemoved, call>>

\* attemptUpload, lines 189-222: elfwriter.OnlyKeepDebug writes the file
\* that was created.  os.Remove(f.Name()) removes whatever is at the path;
\* a file another attempt removed meanwhile is written but stays removed.
Extract(t) ==
  /\ task[t].pc = "extract"
  /\ LET f == task[t].file IN
       \/ /\ cachedFile' = [cachedFile EXCEPT ![f] = "absent"]  \* 189-215
          /\ task' = TaskEnds(t, "other")
          /\ UNCHANGED retry
       \/ /\ cachedFile' = [cachedFile EXCEPT ![f] = "absent"]  \* 218-222
          /\ retry' = LruAdd(retry,
               EntryWithLifetime(f, FALSE, Cooldown, "other"), cacheSize)
          /\ task' = TaskEndsEmpty(t, "other")
       \/ /\ cachedFile' = IF cachedFile[f] = "absent" THEN cachedFile
                           ELSE [cachedFile EXCEPT ![f] = "data"]
          /\ task' = TaskGot(t, "initiate", "data")
          /\ UNCHANGED retry
  /\ UNCHANGED <<rvars, tvars, reported, enc, driver, shaping, cacheSize, keepTextSection, singleflight, origRemoved, call>>

\* attemptUpload, lines 228-248: the InitiateUpload call and its answer.
Initiate(t) ==
  /\ task[t].pc = "initiate"
  /\ \E resp \in {"error", "noinstructions", "otherstrategy", "signedurl"} :
       CASE resp = "error" ->
              /\ task' = TaskEnds(t, "transient")
              /\ UNCHANGED retry
         [] resp \in {"noinstructions", "otherstrategy"} ->
              /\ retry' = LruAdd(retry, DoNotRetry(task[t].file), cacheSize)
              /\ task' = TaskEnds(t, "durable")
         [] resp = "signedurl" ->
              /\ task' = TaskGot(t, "put", resp)
              /\ UNCHANGED retry
  /\ UNCHANGED <<rvars, tvars, reported, enc, driver, shaping, cacheSize, keepTextSection, singleflight, cachedFile,
                 origRemoved, call>>

\* uploadViaSignedURL, lines 272-298: the PUT; a transport error or a status
\* outside 2xx is returned as an error.
PutAnyStatus(t) ==
  /\ task[t].pc = "put"
  /\ \E resp \in {"error", "non2xx", "2xx"} :
       task' = IF resp # "error" THEN TaskGot(t, "finish", resp)
               ELSE TaskEnds(t, "transient")
  /\ UNCHANGED <<rvars, tvars, reported, enc, driver, shaping, cacheSize, keepTextSection, retry, singleflight, cachedFile,
                 origRemoved, call>>

Put(t) ==
  /\ task[t].pc = "put"
  /\ \E resp \in {"error", "non2xx", "2xx"} :
       task' = IF resp = "2xx" THEN TaskGot(t, "finish", resp)
               ELSE TaskEnds(t, "transient")
  /\ UNCHANGED <<rvars, tvars, reported, enc, driver, shaping, cacheSize, keepTextSection, retry, singleflight, cachedFile,
                 origRemoved, call>>

\* attemptUpload, lines 254-269: MarkUploadFinished, then the do-not-retry
\* entry and os.Remove(f.Name()) of the file that was uploaded: f is the
\* original file when keepTextSection is set, the cached file otherwise.
Finish(t) ==
  /\ task[t].pc = "finish"
  /\ \E resp \in {"error", "ok"} :
       IF resp = "error"
       THEN /\ task' = TaskEnds(t, "transient")
            /\ UNCHANGED <<retry, origRemoved, cachedFile>>
       ELSE /\ retry' = LruAdd(retry, DoNotRetry(task[t].file), cacheSize)
            /\ origRemoved' = IF keepTextSection
                              THEN [origRemoved EXCEPT ![task[t].file] = TRUE]
                              ELSE origRemoved
            /\ cachedFile' = IF keepTextSection THEN cachedFile
                             ELSE [cachedFile EXCEPT ![task[t].file] = "absent"]
            /\ task' = [TaskEnds(t, "durable") EXCEPT ![t].answer = "finished"]
  /\ UNCHANGED <<rvars, tvars, reported, enc, driver, shaping, cacheSize, keepTextSection, singleflight, call>>

\* attemptUpload, line 111: defer u.singleflight.Add(fileID, false).
AttemptReturn(t) ==
  /\ task[t].pc = "ret"
  /\ singleflight' = LruAdd(singleflight, Concluded(t), cacheSize)
  /\ task' = TaskAt(t, "exit")
  /\ UNCHANGED <<rvars, tvars, reported, enc, driver, shaping, cacheSize, keepTextSection, retry, cachedFile, origRemoved,
                 call>>

\* Upload, line 102: the goroutine's own defer u.singleflight.Add(fileID, false).
GoroutineExitMarks(t) ==
  /\ task[t].pc = "exit"
  /\ singleflight' = LruAdd(singleflight, Entry(task[t].file, TRUE, "other"),
                            cacheSize)
  /\ task' = [task EXCEPT ![t] = FreeTask]
  /\ UNCHANGED <<rvars, tvars, reported, enc, driver, shaping, cacheSize, keepTextSection, retry, cachedFile, origRemoved,
                 call>>

GoroutineExit(t) ==
  /\ task[t].pc = "exit"
  /\ singleflight' = LruAdd(singleflight, Concluded(t), cacheSize)
  /\ task' = [task EXCEPT ![t] = FreeTask]
  /\ UNCHANGED <<rvars, tvars, reported, enc, driver, shaping, cacheSize, keepTextSection, retry, cachedFile, origRemoved,
                 call>>

\* Time passes while some lifetime is running.
TimePasses ==
  /\ \E i \in 1..Len(retry) : retry[i].timed /\ retry[i].left > 0
  /\ retry' = LruTick(retry)
  /\ UNCHANGED <<rvars, tvars, reported, enc, driver, shaping, cacheSize, keepTextSection, singleflight, cachedFile,
                 origRemoved, call, task>>

\* NewParcaSymbolUploader, lines 33-78: empty caches, an emptied cache
\* directory.  The capacity is one short of the number of FileIDs, or enough.
UploaderInit ==
  /\ retry = <<>>
  /\ singleflight = <<>>
  /\ cachedFile = [f \in FileIDs |-> "absent"]
  /\ origRemoved = [f \in FileIDs |-> FALSE]
  /\ call = [c \in Callers |-> NoCall]
  /\ task = [t \in Tasks |-> FreeTask]

(***************************************************************************)
(* OTLPReporter: the data of the ingestion API.                            *)
(***************************************************************************)
\* A trace hash is the content hash of a call stack, so the frames reported
\* for a hash are a function of the hash.  Frames are (file, address or
\* line, frame type); the model has one stack per residue of the hash.
TraceFiles(h) ==
  CASE h % 3 = 1 -> <<1, 2, 2>>
    [] h % 3 = 2 -> <<1, 2, 1>>
    [] OTHER     -> <<2, 2>>

TraceLinenos(h) ==
  CASE h % 3 = 1 -> <<1, 2, 2>>
    [] h % 3 = 2 -> <<2, 0, 1>>
    [] OTHER     -> <<1, 2>>

TraceFrameTypes(h) ==
  CASE h % 3 = 1 -> <<"native", "kernel", "kernel">>
    [] h % 3 = 2 -> <<"python", "abort-marker", "native">>
    [] OTHER     -> <<"python", "kernel">>

\* The comm, pod name, pod namespace and container name a count call carries.
LabelChoices ==
  { [comm |-> "app", podName |-> "", podNamespace |-> "", containerName |-> ""],
    [comm |-> "db", podName |-> "pod", podNamespace |-> "ns",
     containerName |-> "ctr"] }

NoLabels ==
  [comm |-> "", podName |-> "", podNamespace |-> "", containerName |-> ""]

\* The zero value of traceInfo (lines 37-46).
EmptyTraceInfo ==
  [files |-> <<>>, linenos |-> <<>>, frameTypes |-> <<>>, comm |-> "",
   podName |-> "", podNamespace |-> "", containerName |-> "",
   apmServiceName |-> ""]

\* ReportFramesForTrace, lines 143-145: the frames overwrite those of v.
FramesMerge(v, h) ==
  [v EXCEPT !.files = TraceFiles(h), !.linenos = TraceLinenos(h),
            !.frameTypes = TraceFrameTypes(h)]

\* ReportCountForTrace, lines 166-169: the labels overwrite those of v.
CountMergeFresh(v, l) ==
  [EmptyTraceInfo EXCEPT !.comm = l.comm, !.podName = l.podName,
     !.podNamespace = l.podNamespace, !.containerName = l.containerName]

CountMerge(v, l) ==
  [v EXCEPT !.comm = l.comm, !.podName = l.podName,
            !.podNamespace = l.podNamespace, !.containerName = l.containerName]

\* What r.traces.Peek(h) yields for the read-modify-write of both calls:
\* the entry, or the zero value the else branch starts from.
TracePeek(h) == IF LruLive(traces, h) THEN LruValue(traces, h) ELSE EmptyTraceInfo

\* ReportCountForTrace, lines 181-191: the sample after one more report.
\* The count is a uint32 that sums uint16 arguments; the sums of the model
\* stay below MaxStamps * MaxCount, far from the width.
NoSample == [count |-> 0, timestamps |-> <<>>]

SampleAfterLast(ok, v, ts, count) ==
  [count |-> count, timestamps |-> Append(v.timestamps, ts)]

SampleAfter(ok, v, ts, count) ==
  IF ok
  THEN [count |-> v.count + count, timestamps |-> Append(v.timestamps, ts)]
  ELSE [count |-> count, timestamps |-> <<ts>>]

SampleMerge(h, ts, count) ==
  SampleAfter(LruLive(samples, h),
              IF LruLive(samples, h) THEN LruValue(samples, h) ELSE NoSample,
              ts, count)

\* The history of the traces entry of each hash after an Add of key k: the
\* entry Add evicts starts over.
NotApplied == [shape |-> FALSE, labels |-> NoLabels, first |-> "none"]

AppliedAfter(k, kind, l) ==
  [h \in Hashes |->
     IF h \in LruVictims(traces, k, cacheSize) THEN NotApplied
     ELSE IF h # k THEN applied[h]
     ELSE LET a == IF LruLive(traces, k) THEN applied[k] ELSE NotApplied
          IN [shape |-> a.shape \/ kind = "shape",
              labels |-> IF kind = "shape" THEN a.labels ELSE l,
              first |-> IF a.first # "none" THEN a.first ELSE kind]]

(***************************************************************************)
(* OTLPReporter: the ingestion API, each call as one step.                 *)
(***************************************************************************)
\* ReportFramesForTrace, lines 137-155.
ReportFramesForTrace(h) ==
  /\ traces' = LruAdd(traces, Entry(h, FramesMerge(TracePeek(h), h), ""),
                      cacheSize)
  /\ applied' = AppliedAfter(h, "shape", NoLabels)
  /\ everShaped' = everShaped \cup {h}
  /\ UNCHANGED <<uvars, tvars, reported, enc, driver, shaping, cacheSize, keepTextSection, otlpBuildIDMode, samples,
                 fallbackSymbols, executables, frames, maps, phase, profile,
                 startTS, endTS, drained>>

\* ReportCountForTrace, lines 159-192.
ReportCountForTrace(h, ts, count, l) ==
  /\ Len(reported[h].timestamps) < MaxStamps
  /\ traces' = LruAdd(traces, Entry(h, CountMerge(TracePeek(h), l), ""),
                      cacheSize)
  /\ samples' = LruAdd(samples, Entry(h, SampleMerge(h, ts, count), ""),
                       cacheSize)
  /\ applied' = AppliedAfter(h, "count", l)
  /\ reported' =
       [g \in Hashes |->
          IF g = h
          THEN [reported[h] EXCEPT !.count = @ + count,
                                   !.timestamps = Append(@, ts)]
          ELSE IF g \in LruVictims(samples, h, cacheSize)
               THEN [reported[g] EXCEPT !.lost = TRUE]
               ELSE reported[g]]
  /\ UNCHANGED <<uvars, tvars, enc, driver, shaping, cacheSize, keepTextSection, otlpBuildIDMode,
                 fallbackSymbols, executables, frames, maps, phase, profile,
                 startTS, endTS, drained, everShaped>>

(***************************************************************************)
(* OTLPReporter: the encoder of getProfile.  Go maps that hand out indices *)
(* in insertion order (stringMap, funcMap, fileIDtoMapping) are sequences: *)
(* the index of a key is its position minus one.                           *)
(***************************************************************************)
Has(seq, x) == \E i \in 1..Len(seq) : seq[i] = x

\* The one element of a set of one element; the encoder uses it to compute
\* each intermediate state once.
Only(S) == CHOOSE r \in S : TRUE

IndexIn(seq, x) == (CHOOSE i \in 1..Len(seq) : seq[i] = x) - 1

\* All orders a Go map iteration can visit the set S in.
Orders(S) ==
  {o \in [1..Cardinality(S) -> S] : \A i, j \in DOMAIN o : o[i] = o[j] => i = j}

\* TraceHash.StringNoQuotes and FileID.StringNoQuotes: injective renderings.
HashString(h) == "hash" \o ToString(h)

FileString(f) == "file" \o ToString(f)

\* getStringMapIndex, lines 778-787: the map after the call, and the index.
getStringMapIndexAppends(stringMap, value) ==
  [map |-> Append(stringMap, value), idx |-> Len(stringMap)]

getStringMapIndex(stringMap, value) ==
  IF Has(stringMap, value)
  THEN [map |-> stringMap, idx |-> IndexIn(stringMap, value)]
  ELSE [map |-> Append(stringMap, value), idx |-> Len(stringMap)]

\* createFunctionEntry, lines 790-804.
createFunctionEntry(funcMap, name, fileName) ==
  LET key == [name |-> name, fileName |-> fileName]
  IN IF Has(funcMap, key)
     THEN [map |-> funcMap, idx |-> IndexIn(funcMap, key)]
     ELSE [map |-> Append(funcMap, key), idx |-> Len(funcMap)]

\* getTraceLabels, lines 807-861: one label per non-empty field, in the
\* order of the source.
LabelKeys == <<"comm", "podName", "podNamespace", "containerName",
               "apmServiceName">>

RECURSIVE TraceLabelsFrom(_, _, _, _)
TraceLabelsFrom(stringMap, i, n, labels) ==
  IF n > Len(LabelKeys) THEN [map |-> stringMap, labels |-> labels]
  ELSE IF i[LabelKeys[n]] = "" THEN TraceLabelsFrom(stringMap, i, n + 1, labels)
  ELSE LET key == getStringMapIndex(stringMap, LabelKeys[n])
           str == getStringMapIndex(key.map, i[LabelKeys[n]])
       IN TraceLabelsFrom(str.map, i, n + 1,
                          Append(labels, [key |-> key.idx, str |-> str.idx]))

getTraceLabels(stringMap, i) == TraceLabelsFrom(stringMap, i, 1, <<>>)

\* getDummyMappingIndex, lines 864-885, on the encoder state e.
getDummyMappingIndexAppends(e, fileID) ==
  LET fn == getStringMapIndex(e.stringMap, "DUMMY")
      bi == getStringMapIndex(fn.map, FileString(fileID))
  IN [e |-> [e EXCEPT
               !.fileIDtoMapping = Append(@, fileID),
               !.stringMap = bi.map,
               !.mapping = Append(@, [fileOffset |-> 0,
                                      filename |-> fn.idx,
                                      buildId |-> bi.idx,
                                      buildIdKind |-> "BUILD_ID_BINARY_HASH"])],
      idx |-> Len(e.fileIDtoMapping)]

getDummyMappingIndex(e, fileID) ==
  IF Has(e.fileIDtoMapping, fileID)
  THEN [e |-> e, idx |-> IndexIn(e.fileIDtoMapping, fileID)]
  ELSE LET fn == getStringMapIndex(e.stringMap, "DUMMY")
           bi == getStringMapIndex(fn.map, FileString(fileID))
       IN [e |-> [e EXCEPT
                    !.fileIDtoMapping = Append(@, fileID),
                    !.stringMap = bi.map,
                    !.mapping = Append(@, [fileOffset |-> 0,
                                           filename |-> fn.idx,
                                           buildId |-> bi.idx,
                                           buildIdKind |-> "BUILD_ID_BINARY_HASH"])],
           idx |-> Len(e.fileIDtoMapping)]

\* Lines 567-578: the timestamps of one sample extend startTS and endTS; a
\* timestamp that lowers startTS is not compared with endTS.
RECURSIVE TimeRange(_, _, _)
TimeRange(e, timestamps, n) ==
  IF n > Len(timestamps) THEN e
  ELSE LET ts == timestamps[n]
       IN IF ts < e.startTS \/ e.startTS = 0
          THEN TimeRange([e EXCEPT !.startTS = ts], timestamps, n + 1)
          ELSE IF ts > e.endTS
               THEN TimeRange([e EXCEPT !.endTS = ts], timestamps, n + 1)
               ELSE TimeRange(e, timestamps, n + 1)

\* Lines 592-645: a native frame refers to the mapping of its file.
NativeFrame(e, loc, file, lineno) ==
  IF Has(e.fileIDtoMapping, file)
  THEN [e EXCEPT !.location = Append(@,
          [loc EXCEPT !.mappingIndex = IndexIn(e.fileIDtoMapping, file) + 1])]
  ELSE LET exists == LruLive(e.executables, file)
           execInfo == IF exists THEN LruValue(e.executables, file)
                       ELSE [fileName |-> "", buildID |-> ""]
           fileName == IF exists THEN execInfo.fileName ELSE "UNKNOWN"
           buildID == IF otlpBuildIDMode = "hash" THEN FileString(file)
                      ELSE IF otlpBuildIDMode = "linker" THEN execInfo.buildID
                      ELSE "UNKNOWN"
           kind == IF otlpBuildIDMode = "hash" THEN "BUILD_ID_BINARY_HASH"
                   ELSE "BUILD_ID_LINKER"
           fn == getStringMapIndex(e.stringMap, fileName)
           bi == getStringMapIndex(fn.map, buildID)
       IN [e EXCEPT
             !.executables = LruAfterGet(@, file),
             !.stringMap = bi.map,
             !.mapping = Append(@, [fileOffset |-> lineno, filename |-> fn.idx,
                                    buildId |-> bi.idx, buildIdKind |-> kind]),
             !.location = Append(@,
                [loc EXCEPT !.mappingIndex = Len(e.fileIDtoMapping) + 1]),
             !.fileIDtoMapping = Append(@, file)]

\* Lines 646-678: a kernel frame is a line with a function of file vmlinux.
\* frameIDtoFunction is never written, so the lookup of line 652 misses.
KernelFrame(e, loc, file, lineno) ==
  LET frameID == <<file, lineno>>
      symbol == IF LruLive(e.fallbackSymbols, frameID)
                THEN LruValue(e.fallbackSymbols, frameID) ELSE "UNKNOWN"
      fe == createFunctionEntry(e.funcMap, symbol, "vmlinux")
      e1 == [e EXCEPT !.fallbackSymbols = LruAfterGet(@, frameID),
                      !.funcMap = fe.map]
      dm == getDummyMappingIndex(e1, file)
  IN [dm.e EXCEPT !.location = Append(@,
        [loc EXCEPT !.line = <<[functionIndex |-> fe.idx + 1, line |-> 0]>>,
                    !.mappingIndex = dm.idx + 1])]

\* Lines 684-729: an interpreted frame is a line with the function the
\* frames cache knows for it, or a placeholder.
InterpretedFrame(e, loc, file, lineno, frameKind) ==
  LET exists == LruLive(e.frames, file)
      fileIDInfo == IF exists THEN maps[LruValue(e.frames, file)] ELSE <<>>
      known == exists /\ lineno \in DOMAIN fileIDInfo
      fe == IF ~exists THEN createFunctionEntry(e.funcMap, "UNREPORTED", frameKind)
            ELSE IF ~known THEN createFunctionEntry(e.funcMap, "UNRESOLVED", frameKind)
            ELSE createFunctionEntry(e.funcMap, fileIDInfo[lineno].functionName,
                                     fileIDInfo[lineno].filePath)
      e1 == [e EXCEPT !.frames = LruAfterGet(@, file), !.funcMap = fe.map]
      dm == getDummyMappingIndex(e1, file)
  IN [dm.e EXCEPT !.location = Append(@,
        [loc EXCEPT !.line = <<[functionIndex |-> fe.idx + 1,
                                line |-> IF known THEN fileIDInfo[lineno].lineNumber
                                         ELSE 0]>>,
                    !.mappingIndex = dm.idx + 1])]

\* Lines 581-732: the locations of the frames n.. of a trace.
EncodeFrame(e, trace, n) ==
  LET frameKind == trace.frameTypes[n]
      ti == getStringMapIndex(e.stringMap, frameKind)
      e1 == [e EXCEPT !.stringMap = ti.map]
      loc == [typeIndex |-> ti.idx, address |-> trace.linenos[n],
              mappingIndex |-> 0, line |-> <<>>]
  IN CASE frameKind = "native" ->
            NativeFrame(e1, loc, trace.files[n], trace.linenos[n])
       [] frameKind = "kernel" ->
            KernelFrame(e1, loc, trace.files[n], trace.linenos[n])
       [] frameKind = "abort-marker" ->
            [e1 EXCEPT !.location = Append(@, loc)]
       [] OTHER ->
            InterpretedFrame(e1, loc, trace.files[n], trace.linenos[n],
                             frameKind)

RECURSIVE EncodeFrames(_, _, _)
EncodeFrames(e, trace, n) ==
  IF n > Len(trace.frameTypes) THEN e
  ELSE Only({EncodeFrames(x, trace, n + 1) : x \in {EncodeFrame(e, trace, n)}})

\* Lines 558-578: the head of the sample loop.
BeginSample(e, traceHash, sampleInfo) ==
  LET si == getStringMapIndex(e.stringMap, HashString(traceHash))
  IN TimeRange([e EXCEPT !.traces = LruAfterGet(@, traceHash),
                         !.stringMap = si.map],
               sampleInfo.timestamps, 1)

\* Lines 559-566 and 733-739: the sample joins the profile.
EndSampleKeepsIndex(x, trace, traceHash, sampleInfo) ==
  LET lb == getTraceLabels(x.stringMap, trace)
  IN [x EXCEPT
        !.stringMap = lb.map,
        !.sample = Append(@,
           [locationsStartIndex |-> x.locationIndex,
            locationsLength |-> Len(trace.frameTypes),
            stacktraceIdIndex |-> IndexIn(x.stringMap, HashString(traceHash)),
            timestamps |-> [n \in 1..Len(sampleInfo.timestamps) |->
                              sampleInfo.timestamps[n] * 1000],
            value |-> <<sampleInfo.count>>,
            label |-> lb.labels])]

EndSample(x, trace, traceHash, sampleInfo) ==
  LET lb == getTraceLabels(x.stringMap, trace)
  IN [x EXCEPT
        !.stringMap = lb.map,
        !.locationIndex = @ + Len(trace.frameTypes),
        !.sample = Append(@,
           [locationsStartIndex |-> x.locationIndex,
            locationsLength |-> Len(trace.frameTypes),
            stacktraceIdIndex |-> IndexIn(x.stringMap, HashString(traceHash)),
            timestamps |-> [n \in 1..Len(sampleInfo.timestamps) |->
                              sampleInfo.timestamps[n] * 1000],
            value |-> <<sampleInfo.count>>,
            label |-> lb.labels])]

\* Lines 558-739: one sample of the profile.
EncodeSampleSkipped(e, traceHash, sampleInfo) ==
  [e EXCEPT !.traces = LruAfterGet(@, traceHash)]

EncodeSample(e, traceHash, sampleInfo) ==
  Only({EndSample(e3, LruValue(e.traces, traceHash), traceHash, sampleInfo) :
          e3 \in {EncodeFrames(BeginSample(e, traceHash, sampleInfo),
                               LruValue(e.traces, traceHash), 1)}})

\* Lines 557-740: the samples of the copy, in the order the map yields them.
RECURSIVE EncodeSamples(_, _, _, _)
EncodeSamples(e, order, samplesCpy, n) ==
  IF n > Len(order) THEN e
  ELSE Only({EncodeSamples(x, order, samplesCpy, n + 1) :
               x \in {EncodeSample(e, order[n], samplesCpy[order[n]])}})

\* Lines 743-751: the function table, whose names enter the string table in
\* the order the iteration over funcMap visits them.
RECURSIVE FunctionStrings(_, _, _, _)
FunctionStrings(stringMap, funcMap, order, n) ==
  IF n > Len(order) THEN stringMap
  ELSE LET v == funcMap[order[n]]
           nm == getStringMapIndex(stringMap, v.name)
           fl == getStringMapIndex(nm.map, v.fileName)
       IN FunctionStrings(fl.map, funcMap, order, n + 1)

FunctionTable(stringMap, funcMap) ==
  [i \in 1..Len(funcMap) |->
     [name |-> IndexIn(stringMap, funcMap[i].name),
      filename |-> IndexIn(stringMap, funcMap[i].fileName)]]

\* Lines 519-537 and 551-555: the encoder before the first sample.
StartEncoder ==
  [stringMap |-> <<"", "samples", "count", "cpu", "nanoseconds">>,
   funcMap |-> <<>>, fileIDtoMapping |-> <<>>, mapping |-> <<>>,
   location |-> <<>>, sample |-> <<>>, locationIndex |-> 0,
   startTS |-> 0, endTS |-> 0,
   traces |-> traces, executables |-> executables,
   fallbackSymbols |-> fallbackSymbols, frames |-> frames]

\* The profile before the first round and after an export.
NoProfile ==
  [sample |-> <<>>, mapping |-> <<>>, location |-> <<>>, function |-> <<>>,
   stringTable |-> <<>>, locationIndices |-> <<>>, sampleType |-> <<>>,
   periodType |-> [type |-> 0, unit |-> 0], durationNanos |-> 0,
   timeNanos |-> 0]

\* Lines 500-515: the cache after the samples without trace information have
\* been put back, in the order the map yielded them.
PutBackNothing(cache, back, samplesCpy, n) == cache

RECURSIVE PutBack(_, _, _, _)
PutBack(cache, back, samplesCpy, n) ==
  IF n > Len(back) THEN cache
  ELSE PutBack(LruAdd(cache, Entry(back[n], samplesCpy[back[n]], ""), cacheSize),
               back, samplesCpy, n + 1)

(***************************************************************************)
(* OTLPReporter: the reporting round.                                      *)
(***************************************************************************)
\* getProfile, lines 517-775: the profile of the samples of the copy.
\* durationNanos and timeNanos are counted in seconds: UnixNano of a whole
\* second is that second times 10^9.
Emit(e) ==
  \E funcOrder \in Orders(1..Len(e.funcMap)) :
    \E stringMap \in {FunctionStrings(e.stringMap, e.funcMap, funcOrder, 1)} :
      /\ traces' = e.traces
      /\ executables' = e.executables
      /\ fallbackSymbols' = e.fallbackSymbols
      /\ frames' = e.frames
      /\ startTS' = e.startTS
      /\ endTS' = e.endTS
      /\ profile' =
           [sample |-> e.sample, mapping |-> e.mapping,
            location |-> e.location,
            function |-> FunctionTable(stringMap, e.funcMap),
            stringTable |-> stringMap,
            locationIndices |-> [n \in 1..Len(e.location) |-> n - 1],
            sampleType |-> <<[type |-> 1, unit |-> 2]>>,
            periodType |-> [type |-> 3, unit |-> 4],
            durationNanos |-> e.endTS - e.startTS,
            timeNanos |-> e.startTS]

EmitProfile(samplesCpy) ==
  \E order \in Orders(DOMAIN samplesCpy) :
    \E e \in {EncodeSamples(StartEncoder, order, samplesCpy, 1)} : Emit(e)

\* getProfile, lines 487-775, run without interruption, as the first step
\* of reportOTLPProfile (line 404).
GetProfile ==
  /\ phase = "idle"
  /\ LET samplesWoTraceinfo == {h \in LruKeys(samples) : ~LruLive(traces, h)}
         samplesCpy == [h \in LruKeys(samples) |-> LruValue(samples, h)]
     IN /\ \E back \in Orders(samplesWoTraceinfo) :
             samples' = PutBack(<<>>, back, samplesCpy, 1)
        /\ EmitProfile([h \in LruKeys(samples) \ samplesWoTraceinfo |->
                          samplesCpy[h]])
  /\ drained' = samples
  /\ phase' = "built"
  /\ UNCHANGED <<uvars, tvars, reported, enc, shaping, cacheSize, keepTextSection, otlpBuildIDMode,
                 maps, applied, everShaped>>

\* What was reported for the counters the round has left in the sample
\* cache; the history of the others starts over.
NothingReported == [count |-> 0, timestamps |-> <<>>, lost |-> FALSE]

StillHeld ==
  [h \in Hashes |->
     IF LruLive(samples, h) THEN reported[h] ELSE NothingReported]

\* reportOTLPProfile, line 406: len(profile.Sample) == 0.
NoSamplesNever(p) == FALSE

NoSamples(p) == Len(p.sample) = 0

\* reportOTLPProfile, lines 406-409: a profile without samples is not sent.
SkipExport ==
  /\ phase = "built"
  /\ NoSamples(profile)
  /\ phase' = "idle"
  /\ profile' = NoProfile
  /\ startTS' = 0
  /\ endTS' = 0
  /\ drained' = <<>>
  /\ reported' = StillHeld
  /\ UNCHANGED <<uvars, tvars, enc, shaping, cacheSize, keepTextSection, otlpBuildIDMode, traces,
                 samples, fallbackSymbols, executables, frames, maps, applied,
                 everShaped>>

\* reportOTLPProfile, lines 411-413: the duration of the profile that is
\* sent, in seconds.
DurationSent(p) ==
  IF p.durationNanos = 0 THEN ReportInterval ELSE p.durationNanos

\* reportOTLPProfile, lines 411-452: the profile is sent; the driver logs an
\* error of the export and goes on (lines 379-381).
Export ==
  /\ phase = "built"
  /\ ~NoSamples(profile)
  /\ phase' = "idle"
  /\ profile' = NoProfile
  /\ startTS' = 0
  /\ endTS' = 0
  /\ drained' = <<>>
  /\ reported' = StillHeld
  /\ UNCHANGED <<uvars, tvars, enc, shaping, cacheSize, keepTextSection, otlpBuildIDMode, traces,
                 samples, fallbackSymbols, executables, frames, maps, applied,
                 everShaped>>

(***************************************************************************)
(* StartOTLP, lines 370-397: the tick loop and the shutdown watcher.       *)
(***************************************************************************)
\* loop is where the tick loop is: at its select, in reportOTLPProfile, or
\* returned.  watcher is where the shutdown watcher is.  stopped: stopSignal
\* is closed.  cancelled: ctx.Done() is closed.  closed counts the calls of
\* otlpGrpcConn.Close().  last is how the last tick ended; failed records
\* that some export has failed; fatal that log.Fatalf ended the process.
DriverStart ==
  [loop |-> "select", watcher |-> "waiting", stopped |-> FALSE,
   cancelled |-> FALSE, closed |-> 0, last |-> "none", failed |-> FALSE,
   fatal |-> FALSE]

\* Stop, lines 276-278.  A second call would close a closed channel.
Stop ==
  /\ ~driver.stopped
  /\ ~driver.fatal
  /\ driver' = [driver EXCEPT !.stopped = TRUE]
  /\ UNCHANGED <<uvars, rvars, tvars, reported, enc, shaping, cacheSize, keepTextSection>>

\* The owner of mainCtx cancels it: the child context of line 334 is done.
CancelMain ==
  /\ ~driver.cancelled
  /\ ~driver.fatal
  /\ driver' = [driver EXCEPT !.cancelled = TRUE]
  /\ UNCHANGED <<uvars, rvars, tvars, reported, enc, shaping, cacheSize, keepTextSection>>

\* Line 378: case <-tick.C, up to the return of getProfile (line 404).
LoopTick ==
  /\ driver.loop = "select"
  /\ GetProfile
  /\ driver' = [driver EXCEPT !.loop = "tick"]

\* Lines 406-409, then tick.Reset (line 382) and the next select.
LoopSkip ==
  /\ driver.loop = "tick"
  /\ SkipExport
  /\ driver' = [driver EXCEPT !.loop = "select", !.last = "skipped"]

\* Lines 411-452 and 379-382: the export call returns, an error is logged,
\* the ticker is reset and the loop is at its select again.  A call with a
\* cancelled context fails.
LoopExportEnds ==
  /\ driver.loop = "tick"
  /\ Export
  /\ \E resp \in IF driver.cancelled THEN {"failed"} ELSE {"sent", "failed"} :
       driver' = [driver EXCEPT
                    !.loop = IF resp = "failed" THEN "exited" ELSE "select",
                    !.last = resp,
                    !.failed = driver.failed \/ resp = "failed"]

LoopExport ==
  /\ driver.loop = "tick"
  /\ Export
  /\ \E resp \in IF driver.cancelled THEN {"failed"} ELSE {"sent", "failed"} :
       driver' = [driver EXCEPT !.loop = "select", !.last = resp,
                                !.failed = driver.failed \/ resp = "failed"]

\* Lines 374-377: case <-ctx.Done() or case <-r.stopSignal.
LoopExit ==
  /\ driver.loop = "select"
  /\ driver.stopped \/ driver.cancelled
  /\ driver' = [driver EXCEPT !.loop = "exited"]
  /\ UNCHANGED <<uvars, rvars, tvars, reported, enc, shaping, cacheSize, keepTextSection>>

\* Lines 392-393: <-r.stopSignal, then cancelReporting().
WatcherCancelForgets ==
  /\ driver.watcher = "waiting"
  /\ driver.stopped
  /\ driver' = [driver EXCEPT !.watcher = "close"]
  /\ UNCHANGED <<uvars, rvars, tvars, reported, enc, shaping, cacheSize, keepTextSection>>

WatcherCancel ==
  /\ driver.watcher = "waiting"
  /\ driver.stopped
  /\ driver' = [driver EXCEPT !.watcher = "close", !.cancelled = TRUE]
  /\ UNCHANGED <<uvars, rvars, tvars, reported, enc, shaping, cacheSize, keepTextSection>>

\* Lines 394-396: otlpGrpcConn.Close(); an error ends the process through
\* log.Fatalf, and the tick loop with it.
WatcherClose ==
  /\ driver.watcher = "close"
  /\ \E err \in BOOLEAN :
       driver' = [driver EXCEPT !.watcher = "exited",
                                !.closed = driver.closed + 1,
                                !.fatal = err,
                                !.loop = IF err THEN "exited" ELSE driver.loop]
  /\ UNCHANGED <<uvars, rvars, tvars, reported, enc, shaping, cacheSize, keepTextSection>>

(***************************************************************************)
(* OTLPReporter: ReportCountForTrace and getProfile step by step, one      *)
(* step per cache operation, for the rounds that overlap ingestion.        *)
(***************************************************************************)
IdleIngest ==
  [pc |-> "idle", h |-> 0, ts |-> 0, count |-> 0, l |-> NoLabels,
   trace |-> EmptyTraceInfo, ok |-> FALSE, v |-> NoSample]

\* Line 161: r.traces.Peek(traceHash).
CountTracesPeek(h, ts, count, l) ==
  /\ ingest.pc = "idle"
  /\ ingested[h] < MaxIngested
  /\ ingest' = [IdleIngest EXCEPT !.pc = "tracesAdd", !.h = h, !.ts = ts,
                                  !.count = count, !.l = l,
                                  !.trace = TracePeek(h)]
  /\ UNCHANGED <<uvars, rvars, reported, enc, driver, shaping, cacheSize, keepTextSection, drain, fb, fm,
                 ingested, emitted>>

\* Lines 166-178: r.traces.Add of the entry read at line 161 with the labels.
CountTracesAdd ==
  /\ ingest.pc = "tracesAdd"
  /\ traces' = LruAdd(traces,
                      Entry(ingest.h, CountMerge(ingest.trace, ingest.l), ""),
                      cacheSize)
  /\ applied' = AppliedAfter(ingest.h, "count", ingest.l)
  /\ ingest' = [ingest EXCEPT !.pc = "samplesPeek"]
  /\ UNCHANGED <<uvars, reported, enc, driver, shaping, cacheSize, keepTextSection, otlpBuildIDMode, samples,
                 fallbackSymbols, executables, frames, maps, phase, profile,
                 startTS, endTS, drained, everShaped, drain, fb, fm, ingested,
                 emitted>>

\* Line 181: r.samples.Peek(traceHash).
CountSamplesPeek ==
  /\ ingest.pc = "samplesPeek"
  /\ ingest' = [ingest EXCEPT
                  !.pc = "samplesAdd",
                  !.ok = LruLive(samples, ingest.h),
                  !.v = IF LruLive(samples, ingest.h)
                        THEN LruValue(samples, ingest.h) ELSE NoSample]
  /\ UNCHANGED <<uvars, rvars, reported, enc, driver, shaping, cacheSize, keepTextSection, drain, fb, fm,
                 ingested, emitted>>

\* Lines 182-190: r.samples.Add of the sample read at line 181, with the
\* count and the timestamp of the call.
CountSamplesAdd ==
  /\ ingest.pc = "samplesAdd"
  /\ samples' = LruAdd(samples,
                       Entry(ingest.h,
                             SampleAfter(ingest.ok, ingest.v, ingest.ts,
                                         ingest.count), ""),
                       cacheSize)
  /\ ingested' = [ingested EXCEPT ![ingest.h] = @ + ingest.count]
  /\ ingest' = IdleIngest
  /\ UNCHANGED <<uvars, reported, enc, driver, shaping, cacheSize, keepTextSection, otlpBuildIDMode, traces,
                 fallbackSymbols, executables, frames, maps, phase, profile,
                 startTS, endTS, drained, applied, everShaped, drain, fb, fm,
                 emitted>>

IdleShaping == [pc |-> "idle", h |-> 0, trace |-> EmptyTraceInfo]

\* ReportFramesForTrace, line 138: r.traces.Peek(trace.Hash).
FramesPeek(h) ==
  /\ shaping.pc = "idle"
  /\ shaping' = [pc |-> "add", h |-> h, trace |-> TracePeek(h)]
  /\ UNCHANGED <<uvars, rvars, tvars, reported, enc, driver, cacheSize,
                 keepTextSection>>

\* Lines 143-153: r.traces.Add of the entry read at line 138 with the frames.
FramesAdd ==
  /\ shaping.pc = "add"
  /\ traces' = LruAdd(traces,
                      Entry(shaping.h, FramesMerge(shaping.trace, shaping.h), ""),
                      cacheSize)
  /\ applied' = AppliedAfter(shaping.h, "shape", NoLabels)
  /\ everShaped' = everShaped \cup {shaping.h}
  /\ shaping' = IdleShaping
  /\ UNCHANGED <<uvars, tvars, reported, enc, driver, cacheSize, keepTextSection,
                 otlpBuildIDMode, samples, fallbackSymbols, executables,
                 frames, maps, phase, profile, startTS, endTS, drained>>

IdleDrain == [pc |-> "idle", keys |-> <<>>, samplesCpy |-> <<>>]

\* The position of the drain loop after the key at the head of the list.
DrainNext(keys) == IF Len(keys) > 1 THEN "get" ELSE "split"

\* Line 489: r.samples.Keys(), in the order the cache lists them.
DrainKeys ==
  /\ phase = "idle"
  /\ drain.pc = "idle"
  /\ \E sampleKeys \in Orders(LruKeys(samples)) :
       drain' = [pc |-> IF sampleKeys = <<>> THEN "split" ELSE "get",
                 keys |-> sampleKeys, samplesCpy |-> <<>>]
  /\ drained' = samples
  /\ UNCHANGED <<uvars, reported, enc, driver, shaping, cacheSize, keepTextSection, otlpBuildIDMode, traces,
                 samples, fallbackSymbols, executables, frames, maps, phase,
                 profile, startTS, endTS, applied, everShaped, ingest, fb, fm,
                 ingested, emitted>>

\* Lines 492-496: r.samples.Get(k) of the next key; a key that is gone is
\* skipped.
DrainGet ==
  /\ drain.pc = "get"
  /\ LET k == Head(drain.keys)
     IN /\ samples' = LruAfterGet(samples, k)
        /\ IF LruLive(samples, k)
           THEN drain' = [drain EXCEPT
                  !.pc = "remove",
                  !.samplesCpy = [h \in DOMAIN drain.samplesCpy \cup {k} |->
                                    IF h = k THEN LruValue(samples, k)
                                    ELSE drain.samplesCpy[h]]]
           ELSE drain' = [drain EXCEPT !.pc = DrainNext(drain.keys),
                                       !.keys = Tail(@)]
  /\ UNCHANGED <<uvars, reported, enc, driver, shaping, cacheSize, keepTextSection, otlpBuildIDMode, traces,
                 fallbackSymbols, executables, frames, maps, phase, profile,
                 startTS, endTS, drained, applied, everShaped, ingest, fb, fm,
                 ingested, emitted>>

\* Line 497: r.samples.Remove(k).
DrainRemove ==
  /\ drain.pc = "remove"
  /\ samples' = LruRemove(samples, Head(drain.keys))
  /\ drain' = [drain EXCEPT !.pc = DrainNext(drain.keys), !.keys = Tail(@)]
  /\ UNCHANGED <<uvars, reported, enc, driver, shaping, cacheSize, keepTextSection, otlpBuildIDMode, traces,
                 fallbackSymbols, executables, frames, maps, phase, profile,
                 startTS, endTS, drained, applied, everShaped, ingest, fb, fm,
                 ingested, emitted>>

\* Lines 500-515: the samples without trace information go back to the cache.
DrainSplit ==
  /\ drain.pc = "split"
  /\ LET samplesWoTraceinfo ==
           {h \in DOMAIN drain.samplesCpy : ~LruLive(traces, h)}
     IN /\ \E back \in Orders(samplesWoTraceinfo) :
             samples' = PutBack(samples, back, drain.samplesCpy, 1)
        /\ drain' = [drain EXCEPT
             !.pc = "encode",
             !.samplesCpy = [h \in DOMAIN drain.samplesCpy \ samplesWoTraceinfo |->
                               drain.samplesCpy[h]]]
  /\ UNCHANGED <<uvars, reported, enc, driver, shaping, cacheSize, keepTextSection, otlpBuildIDMode, traces,
                 fallbackSymbols, executables, frames, maps, phase, profile,
                 startTS, endTS, drained, applied, everShaped, ingest, fb, fm,
                 ingested, emitted>>

\* Lines 517-775: the rest of getProfile.
DrainEncode ==
  /\ drain.pc = "encode"
  /\ EmitProfile(drain.samplesCpy)
  /\ emitted' = [h \in Hashes |->
                   IF h \in DOMAIN drain.samplesCpy
                   THEN emitted[h] + drain.samplesCpy[h].count ELSE emitted[h]]
  /\ drain' = IdleDrain
  /\ phase' = "built"
  /\ UNCHANGED <<uvars, reported, enc, driver, shaping, cacheSize, keepTextSection, otlpBuildIDMode, samples,
                 maps, drained, applied, everShaped, ingest, fb, fm, ingested>>

(***************************************************************************)
(* OTLPReporter: ReportFallbackSymbol step by step.                        *)
(***************************************************************************)
\* libpf.NewFrameID(fileID, addressOrLine).
FrameIDs == FileIDs \X Addrs

IdleFallback ==
  [pc |-> "idle", frameID |-> <<0, 0>>, symbol |-> "", found |-> FALSE,
   overtaken |-> FALSE]

\* Line 196: the outcome of r.fallbackSymbols.Peek(frameID).
FallbackExistsNever(frameID) == FALSE

FallbackExists(frameID) == LruLive(fallbackSymbols, frameID)

\* Lines 196-198: the Peek; the call returns when the frame has a symbol.
FallbackPeek(t, frameID, symbol) ==
  /\ fb[t].pc = "idle"
  /\ fb' = [fb EXCEPT ![t] =
              [pc |-> IF FallbackExists(frameID) THEN "done" ELSE "add",
               frameID |-> frameID, symbol |-> symbol,
               found |-> LruLive(fallbackSymbols, frameID),
               overtaken |-> FALSE]]
  /\ UNCHANGED <<uvars, rvars, reported, enc, driver, shaping, cacheSize, keepTextSection, ingest, drain, fm,
                 ingested, emitted>>

\* Line 199: r.fallbackSymbols.Add(frameID, symbol).  The calls that are
\* between their Peek and their Add for the same frame are overtaken.
FallbackAdd(t) ==
  /\ fb[t].pc = "add"
  /\ fallbackSymbols' = LruAdd(fallbackSymbols,
                               Entry(fb[t].frameID, fb[t].symbol, ""), cacheSize)
  /\ fb' = [u \in Threads |->
              IF u = t THEN [fb[t] EXCEPT !.pc = "done"]
              ELSE IF fb[u].pc = "add" /\ fb[u].frameID = fb[t].frameID
                   THEN [fb[u] EXCEPT !.overtaken = TRUE]
                   ELSE fb[u]]
  /\ UNCHANGED <<uvars, reported, enc, driver, shaping, cacheSize, keepTextSection, otlpBuildIDMode, traces,
                 samples, executables, frames, maps, phase, profile, startTS,
                 endTS, drained, applied, everShaped, ingest, drain, fm,
                 ingested, emitted>>

\* The call has returned.
FallbackReturn(t) ==
  /\ fb[t].pc = "done"
  /\ fb' = [fb EXCEPT ![t] = IdleFallback]
  /\ UNCHANGED <<uvars, rvars, reported, enc, driver, shaping, cacheSize, keepTextSection, ingest, drain, fm,
                 ingested, emitted>>

(***************************************************************************)
(* OTLPReporter: FrameMetadata step by step.  The value of a frames entry  *)
(* is a reference to a Go map, which the call reads and writes in place    *)
(* after r.frames.Get has returned it.                                     *)
(***************************************************************************)
NoSourceInfo ==
  [lineNumber |-> 0, functionOffset |-> 0, functionName |-> "", filePath |-> ""]

IdleFrame ==
  [pc |-> "idle", fileID |-> 0, addressOrLine |-> 0, info |-> NoSourceInfo,
   v |-> 0]

\* The calls that are about to make a new map.
Making == {t \in Threads : fm[t].pc = "make"}

\* Line 226: r.frames.Get(fileID).
FrameGet(t, fileID, addressOrLine, info) ==
  /\ fm[t].pc = "idle"
  /\ Len(maps) + Cardinality(Making) < MaxMaps
  /\ frames' = LruAfterGet(frames, fileID)
  /\ fm' = [fm EXCEPT ![t] =
              [pc |-> IF LruLive(frames, fileID) THEN "read" ELSE "make",
               fileID |-> fileID, addressOrLine |-> addressOrLine,
               info |-> info,
               v |-> IF LruLive(frames, fileID) THEN LruValue(frames, fileID)
                     ELSE 0]]
  /\ UNCHANGED <<uvars, reported, enc, driver, shaping, cacheSize, keepTextSection, otlpBuildIDMode, traces,
                 samples, fallbackSymbols, executables, maps, phase, profile,
                 startTS, endTS, drained, applied, everShaped, ingest, drain,
                 fb, ingested, emitted>>

\* Lines 227-233: an empty file path takes over the one the map holds.
FrameRead(t) ==
  /\ fm[t].pc = "read"
  /\ fm' = [fm EXCEPT
              ![t].pc = "write",
              ![t].info.filePath =
                 IF @ = "" /\ fm[t].addressOrLine \in DOMAIN maps[fm[t].v]
                 THEN maps[fm[t].v][fm[t].addressOrLine].filePath ELSE @]
  /\ UNCHANGED <<uvars, rvars, reported, enc, driver, shaping, cacheSize, keepTextSection, ingest, drain, fb,
                 ingested, emitted>>

\* Lines 234-240: the write into the map.
FrameWrite(t) ==
  /\ fm[t].pc = "write"
  /\ maps' = [maps EXCEPT ![fm[t].v] =
                [a \in DOMAIN @ \cup {fm[t].addressOrLine} |->
                   IF a = fm[t].addressOrLine THEN fm[t].info ELSE @[a]]]
  /\ fm' = [fm EXCEPT ![t] = IdleFrame]
  /\ UNCHANGED <<uvars, reported, enc, driver, shaping, cacheSize, keepTextSection, otlpBuildIDMode, traces,
                 samples, fallbackSymbols, executables, frames, phase, profile,
                 startTS, endTS, drained, applied, everShaped, ingest, drain,
                 fb, ingested, emitted>>

\* Lines 243-250: a new map with the one entry becomes the frames entry.
FrameMake(t) ==
  /\ fm[t].pc = "make"
  /\ maps' = Append(maps, [a \in {fm[t].addressOrLine} |-> fm[t].info])
  /\ frames' = LruAdd(frames, Entry(fm[t].fileID, Len(maps) + 1, ""), cacheSize)
  /\ fm' = [fm EXCEPT ![t] = IdleFrame]
  /\ UNCHANGED <<uvars, reported, enc, driver, shaping, cacheSize, keepTextSection, otlpBuildIDMode, traces,
                 samples, fallbackSymbols, executables, phase, profile,
                 startTS, endTS, drained, applied, everShaped, ingest, drain,
                 fb, ingested, emitted>>

(***************************************************************************)
(* OTLPReporter: ExecutableMetadata, and getProfile building its profile   *)
(* frame by frame while the metadata calls of the collector go on.         *)
(***************************************************************************)
\* path.Base on the file names the collector reports here.
Paths == {"/", "/bin/app"}

BaseName(fileName) ==
  CASE fileName = "/" -> "/"
    [] fileName = "/bin/app" -> "app"

\* ExecutableMetadata, lines 204-221, with the no-op uploader StartOTLP
\* installs when config.UploadSymbols() is off (line 346).
ExecutableMetadata(fileID, fileName, buildID) ==
  /\ executables' = LruAdd(executables,
       Entry(fileID,
             [fileName |-> IF BaseName(fileName) = "/" THEN "<anonymous-blob>"
                           ELSE BaseName(fileName),
              buildID |-> buildID], ""),
       cacheSize)
  /\ UNCHANGED <<uvars, tvars, reported, enc, driver, shaping, cacheSize, keepTextSection, otlpBuildIDMode,
                 traces, samples, fallbackSymbols, frames, maps, phase,
                 profile, startTS, endTS, drained, applied, everShaped>>

EncIdle ==
  [pc |-> "idle", e |-> <<>>, order |-> <<>>, cpy |-> <<>>, s |-> 0, n |-> 0,
   trace |-> <<>>]

\* The local state of getProfile sees the caches as they are now.
WithCaches(e) ==
  [e EXCEPT !.traces = traces, !.executables = executables,
            !.fallbackSymbols = fallbackSymbols, !.frames = frames]

\* The local state of getProfile between two steps.
Detached(e) ==
  [e EXCEPT !.traces = <<>>, !.executables = <<>>, !.fallbackSymbols = <<>>,
            !.frames = <<>>]

\* Lines 487-555: the samples are drained, those without trace information
\* are put back, and the local tables are set up.
EncBegin ==
  /\ enc.pc = "idle"
  /\ phase = "idle"
  /\ LET samplesWoTraceinfo == {h \in LruKeys(samples) : ~LruLive(traces, h)}
         samplesCpy == [h \in LruKeys(samples) |-> LruValue(samples, h)]
     IN /\ \E back \in Orders(samplesWoTraceinfo) :
             samples' = PutBack(<<>>, back, samplesCpy, 1)
        /\ \E order \in Orders(LruKeys(samples) \ samplesWoTraceinfo) :
             enc' = [pc |-> "sample", e |-> Detached(StartEncoder),
                     order |-> order, cpy |-> samplesCpy, s |-> 1, n |-> 1,
                     trace |-> <<>>]
  /\ drained' = samples
  /\ UNCHANGED <<uvars, tvars, reported, driver, shaping, cacheSize, keepTextSection, otlpBuildIDMode,
                 traces, fallbackSymbols, executables, frames, maps, phase,
                 profile, startTS, endTS, applied, everShaped>>

\* Lines 557-578: the next sample of the copy; its trace is read once.
EncSample ==
  /\ enc.pc = "sample"
  /\ enc.s <= Len(enc.order)
  /\ \E x \in {BeginSample(WithCaches(enc.e), enc.order[enc.s],
                           enc.cpy[enc.order[enc.s]])} :
       /\ traces' = x.traces
       /\ enc' = [enc EXCEPT
                    !.pc = "frame", !.e = Detached(x), !.n = 1,
                    !.trace = IF LruLive(traces, enc.order[enc.s])
                              THEN LruValue(traces, enc.order[enc.s])
                              ELSE EmptyTraceInfo]
  /\ UNCHANGED <<uvars, tvars, reported, driver, shaping, cacheSize, keepTextSection, otlpBuildIDMode,
                 samples, fallbackSymbols, executables, frames, maps, phase,
                 profile, startTS, endTS, drained, applied, everShaped>>

\* Lines 581-732: the next frame of the trace.
EncFrame ==
  /\ enc.pc = "frame"
  /\ enc.n <= Len(enc.trace.frameTypes)
  /\ \E x \in {EncodeFrame(WithCaches(enc.e), enc.trace, enc.n)} :
       /\ executables' = x.executables
       /\ fallbackSymbols' = x.fallbackSymbols
       /\ frames' = x.frames
       /\ enc' = [enc EXCEPT !.e = Detached(x), !.n = @ + 1]
  /\ UNCHANGED <<uvars, tvars, reported, driver, shaping, cacheSize, keepTextSection, otlpBuildIDMode,
                 traces, samples, maps, phase, profile, startTS, endTS,
                 drained, applied, everShaped>>

\* Lines 733-739: the sample is complete.
EncSampleEnd ==
  /\ enc.pc = "frame"
  /\ enc.n > Len(enc.trace.frameTypes)
  /\ enc' = [enc EXCEPT
               !.pc = "sample", !.s = @ + 1, !.trace = <<>>,
               !.e = EndSample(enc.e, enc.trace, enc.order[enc.s],
                               enc.cpy[enc.order[enc.s]])]
  /\ UNCHANGED <<uvars, rvars, tvars, reported, driver, shaping, cacheSize, keepTextSection>>

\* Lines 741-775: the tables are written out and getProfile returns.
EncFinish ==
  /\ enc.pc = "sample"
  /\ enc.s > Len(enc.order)
  /\ Emit(WithCaches(enc.e))
  /\ enc' = EncIdle
  /\ phase' = "built"
  /\ UNCHANGED <<uvars, tvars, reported, driver, shaping, cacheSize, keepTextSection, otlpBuildIDMode,
                 samples, maps, drained, applied, everShaped>>

\* StartOTLP, lines 291-340: the reporter after construction.
ReporterInit ==
  /\ traces = <<>>
  /\ samples = <<>>
  /\ fallbackSymbols = <<>>
  /\ executables = <<>>
  /\ frames = <<>>
  /\ maps = <<>>
  /\ phase = "idle"
  /\ profile = NoProfile
  /\ startTS = 0
  /\ endTS = 0
  /\ drained = <<>>
  /\ applied = [h \in Hashes |-> NotApplied]
  /\ everShaped = {}
  /\ ingest = IdleIngest
  /\ drain = IdleDrain
  /\ fb = [t \in Threads |-> IdleFallback]
  /\ fm = [t \in Threads |-> IdleFrame]
  /\ ingested = [h \in Hashes |-> 0]
  /\ emitted = [h \in Hashes |-> 0]
  /\ driver = DriverStart
  /\ enc = EncIdle
  /\ reported = [h \in Hashes |-> NothingReported]
  /\ shaping = IdleShaping

(***************************************************************************)
(* The uploader on its own.                                                *)
(***************************************************************************)
InitUpload ==
  /\ cacheSize \in {NumFiles - 1, NumFiles}
  /\ keepTextSection \in BOOLEAN
  /\ otlpBuildIDMode = "hash"
  /\ UploaderInit
  /\ ReporterInit

\* One collector thread calls Upload, one call after the other, while the
\* goroutines of its earlier calls run.
NextUpload ==
  \/ \E f \in FileIDs, b \in {"", "buildid"} : UploadEnter(1, f, b)
  \/ UploadSingleflightGet(1)
  \/ UploadSpawn(1)
  \/ UploadReturn(1)
  \/ \E t \in Tasks : Authorize(t)
  \/ \E t \in Tasks : MaterializeFull(t)
  \/ \E t \in Tasks : MaterializeExtract(t)
  \/ \E t \in Tasks : Extract(t)
  \/ \E t \in Tasks : Initiate(t)
  \/ \E t \in Tasks : Put(t)
  \/ \E t \in Tasks : Finish(t)
  \/ \E t \in Tasks : AttemptReturn(t)
  \/ \E t \in Tasks : GoroutineExit(t)
  \/ TimePasses

SpecUpload == InitUpload /\ [][NextUpload]_vars

(***************************************************************************)
(* The uploader with Upload called by two threads at once for the same     *)
(* executable.  The caches are large enough to evict nothing.              *)
(***************************************************************************)
InitRace ==
  /\ cacheSize = NumFiles
  /\ keepTextSection \in BOOLEAN
  /\ otlpBuildIDMode = "hash"
  /\ UploaderInit
  /\ ReporterInit

NextRace ==
  \/ \E c \in Callers : UploadEnter(c, 1, "buildid")
  \/ \E c \in Callers : UploadSingleflightGet(c)
  \/ \E c \in Callers : UploadSpawn(c)
  \/ \E c \in Callers : UploadReturn(c)
  \/ \E t \in Tasks : Authorize(t)
  \/ \E t \in Tasks : MaterializeFull(t)
  \/ \E t \in Tasks : MaterializeExtract(t)
  \/ \E t \in Tasks : Extract(t)
  \/ \E t \in Tasks : Initiate(t)
  \/ \E t \in Tasks : Put(t)
  \/ \E t \in Tasks : Finish(t)
  \/ \E t \in Tasks : AttemptReturn(t)
  \/ \E t \in Tasks : GoroutineExit(t)
  \/ TimePasses

SpecRace == InitRace /\ [][NextRace]_vars

(***************************************************************************)
(* The reporter with ingestion calls and reporting rounds that do not      *)
(* overlap: the ingestion calls run to completion between two rounds.      *)
(***************************************************************************)
InitReport ==
  /\ cacheSize \in {NumHashes - 1, NumHashes}
  /\ keepTextSection = FALSE
  /\ otlpBuildIDMode = "hash"
  /\ UploaderInit
  /\ ReporterInit

NextReport ==
  \/ \E h \in Hashes : phase = "idle" /\ ReportFramesForTrace(h)
  \/ \E h \in Hashes, ts \in 1..MaxTime, count \in 1..MaxCount, l \in LabelChoices :
       phase = "idle" /\ ReportCountForTrace(h, ts, count, l)
  \/ GetProfile /\ UNCHANGED driver
  \/ SkipExport /\ UNCHANGED driver
  \/ Export /\ UNCHANGED driver

SpecReport == InitReport /\ [][NextReport]_vars

(***************************************************************************)
(* The reporter with traces, counts and executables reported between       *)
(* rounds that run without interruption.                                   *)
(***************************************************************************)
InitScenario ==
  /\ cacheSize \in {NumHashes - 1, NumHashes}
  /\ keepTextSection = FALSE
  /\ otlpBuildIDMode = "hash"
  /\ UploaderInit
  /\ ReporterInit

NextScenario ==
  \/ \E h \in Hashes : phase = "idle" /\ ReportFramesForTrace(h)
  \/ \E h \in Hashes, ts \in 1..MaxTime, count \in 1..MaxCount :
       phase = "idle"
         /\ ReportCountForTrace(h, ts, count, Only({l \in LabelChoices : l.comm = "app"}))
  \/ \E fileName \in Paths : phase = "idle" /\ ExecutableMetadata(1, fileName, "")
  \/ GetProfile /\ UNCHANGED driver
  \/ SkipExport /\ UNCHANGED driver
  \/ Export /\ UNCHANGED driver

SpecScenario == InitScenario /\ [][NextScenario]_vars

(***************************************************************************)
(* The reporter with a ReportFramesForTrace call of one thread and a       *)
(* ReportCountForTrace call of another, each step by step.                 *)
(***************************************************************************)
InitMerge ==
  /\ cacheSize = NumHashes
  /\ keepTextSection = FALSE
  /\ otlpBuildIDMode = "hash"
  /\ UploaderInit
  /\ ReporterInit

NextMerge ==
  \/ \E h \in Hashes : FramesPeek(h)
  \/ FramesAdd
  \/ \E h \in Hashes, l \in LabelChoices : CountTracesPeek(h, 1, 1, l)
  \/ CountTracesAdd
  \/ CountSamplesPeek
  \/ CountSamplesAdd

SpecMerge == InitMerge /\ [][NextMerge]_vars

(***************************************************************************)
(* The reporter as StartOTLP runs it: one trace is reported between the    *)
(* ticks of the tick loop, and Stop or the owner of the context end it.    *)
(***************************************************************************)
InitDriver ==
  /\ cacheSize = NumHashes
  /\ keepTextSection = FALSE
  /\ otlpBuildIDMode = "hash"
  /\ UploaderInit
  /\ ReporterInit

NextDriver ==
  \/ driver.loop # "tick" /\ ~driver.fatal /\ ReportFramesForTrace(1)
  \/ \E h \in Hashes :
       driver.loop # "tick" /\ ~driver.fatal
         /\ ReportCountForTrace(h, 1, 1, Only({l \in LabelChoices : l.comm = "app"}))
  \/ Stop
  \/ CancelMain
  \/ LoopTick
  \/ LoopSkip
  \/ LoopExport
  \/ LoopExit
  \/ WatcherCancel
  \/ WatcherClose

SpecDriver == InitDriver /\ [][NextDriver]_vars

\* The Go scheduler runs every goroutine that can take a step, and a select
\* with several ready cases picks one of them at random, so the case of the
\* closed stopSignal is not passed over for ever.
SpecDriverFair ==
  /\ SpecDriver
  /\ WF_vars(LoopSkip)
  /\ WF_vars(LoopExport)
  /\ SF_vars(LoopExit)
  /\ WF_vars(WatcherCancel)
  /\ WF_vars(WatcherClose)

(***************************************************************************)
(* The reporter with ReportCountForTrace calls of one collector thread     *)
(* that overlap the rounds of the reporting goroutine.  The caches hold    *)
(* every hash, so nothing is evicted.                                      *)
(***************************************************************************)
InitConc ==
  /\ cacheSize = NumHashes
  /\ keepTextSection = FALSE
  /\ otlpBuildIDMode = "hash"
  /\ UploaderInit
  /\ ReporterInit

NextConc ==
  \/ \E h \in Hashes, count \in 1..MaxCount, l \in LabelChoices :
       l.comm = "app" /\ CountTracesPeek(h, 1, count, l)
  \/ CountTracesAdd
  \/ CountSamplesPeek
  \/ CountSamplesAdd
  \/ DrainKeys
  \/ DrainGet
  \/ DrainRemove
  \/ DrainSplit
  \/ DrainEncode
  \/ SkipExport /\ UNCHANGED driver
  \/ Export /\ UNCHANGED driver

SpecConc == InitConc /\ [][NextConc]_vars

(***************************************************************************)
(* ReportFallbackSymbol calls of several threads for the kernel frames of  *)
(* the traces.                                                             *)
(***************************************************************************)
Symbols == {"sys_read", "sys_write"}

InitFallback ==
  /\ cacheSize \in {NumAddrs - 1, NumAddrs}
  /\ keepTextSection = FALSE
  /\ otlpBuildIDMode = "hash"
  /\ UploaderInit
  /\ ReporterInit

NextFallback ==
  \/ \E t \in Threads, a \in Addrs, symbol \in Symbols :
       FallbackPeek(t, <<2, a>>, symbol)
  \/ \E t \in Threads : FallbackAdd(t)
  \/ \E t \in Threads : FallbackReturn(t)

SpecFallback == InitFallback /\ [][NextFallback]_vars

(***************************************************************************)
(* FrameMetadata calls of several threads.                                 *)
(***************************************************************************)
SourceInfos ==
  {[lineNumber |-> 7, functionOffset |-> 0, functionName |-> "main",
    filePath |-> p] : p \in {"", "main.py"}}

InitFrames ==
  /\ cacheSize \in {NumFiles - 1, NumFiles}
  /\ keepTextSection = FALSE
  /\ otlpBuildIDMode = "hash"
  /\ UploaderInit
  /\ ReporterInit

NextFrames ==
  \/ \E t \in Threads, fileID \in FileIDs, a \in Addrs, info \in SourceInfos :
       FrameGet(t, fileID, a, info)
  \/ \E t \in Threads : FrameRead(t)
  \/ \E t \in Threads : FrameWrite(t)
  \/ \E t \in Threads : FrameMake(t)

SpecFrames == InitFrames /\ [][NextFrames]_vars

(***************************************************************************)
(* The reporter with the ReportFallbackSymbol calls of one collector thread *)
(* going on while getProfile builds its profile; the other calls begin     *)
(* between two rounds.                                                     *)
(***************************************************************************)
KernelSymbols == {"sys_read", "vmlinux"}

InitEncode ==
  /\ cacheSize = NumHashes
  /\ keepTextSection = FALSE
  /\ otlpBuildIDMode = "hash"
  /\ UploaderInit
  /\ ReporterInit

NextEncode ==
  \/ \E h \in Hashes :
       enc.pc = "idle" /\ phase = "idle" /\ ReportFramesForTrace(h)
  \/ \E h \in Hashes :
       enc.pc = "idle" /\ phase = "idle" /\ ~LruLive(samples, h)
         /\ ReportCountForTrace(h, 1, 1, Only({l \in LabelChoices : l.comm = "app"}))
  \/ \E symbol \in KernelSymbols : FallbackPeek(1, <<2, 2>>, symbol)
  \/ FallbackAdd(1)
  \/ FallbackReturn(1)
  \/ \E info \in SourceInfos :
       enc.pc = "idle" /\ phase = "idle" /\ FrameGet(1, 1, 2, info)
  \/ FrameRead(1)
  \/ FrameWrite(1)
  \/ FrameMake(1)
  \/ \E fileName \in Paths :
       enc.pc = "idle" /\ phase = "idle" /\ ExecutableMetadata(1, fileName, "")
  \/ EncBegin
  \/ EncSample
  \/ EncFrame
  \/ EncSampleEnd
  \/ EncFinish
  \/ SkipExport /\ UNCHANGED driver
  \/ Export /\ UNCHANGED driver

SpecEncode == InitEncode /\ [][NextEncode]_vars

(***************************************************************************)
(* Claims about Upload, checked under SpecUpload.                          *)
(***************************************************************************)
\* C1 (as stated): an Upload call for F made while an attempt for F is in
\* flight never passes the singleflight check, so it starts no attempt and
\* no remote call.
C1_SecondCallSuppressed ==
  \A c \in Callers : call[c].inFlight => call[c].pc \notin {"sfAdd", "started"}

\* C1 (amended): the same, when the singleflight cache is large enough never
\* to evict the in-flight entry of F.
C1_SecondCallSuppressedWhileCached ==
  \A c \in Callers :
    (cacheSize >= NumFiles /\ call[c].inFlight)
      => call[c].pc \notin {"sfAdd", "started"}

\* A call made while an attempt for its file was in flight has returned
\* without starting anything, in a cache that never evicts.
C1_Witness ==
  \E c \in Callers :
    cacheSize >= NumFiles /\ call[c].inFlight /\ call[c].pc = "done"

\* C2: an Upload call with a build ID, made after the in-progress cooldown
\* entry of F has expired and while no attempt for F runs, does not return
\* as a no-op: it goes on to start a new attempt (whose first step is the
\* authorize call).
C2_RetryAfterCooldown ==
  \A c \in Callers : call[c].cool = "expired" => call[c].pc # "done"

\* C3: an Upload call made while the in-progress cooldown entry of F is live
\* returns at the retry check: it reaches neither the singleflight cache nor
\* a goroutine, hence makes no remote call.
C3_NoCallDuringCooldown ==
  \A c \in Callers : call[c].cool = "live" => call[c].pc = "done"

\* A call made during the live cooldown has returned as a no-op.
C3_Witness ==
  \E c \in Callers : call[c].cool = "live" /\ call[c].pc = "done"

(***************************************************************************)
(* Claims about the reporting round, checked under SpecReport.             *)
(***************************************************************************)
\* The samples of the profile that carry the stack trace id of hash h.
SamplesOf(h) ==
  {n \in 1..Len(profile.sample) :
     profile.stringTable[profile.sample[n].stacktraceIdIndex + 1] = HashString(h)}

\* C4: after a round without concurrent ingestion, every counter that was
\* in the sample cache at drain time and whose hash has a traces entry is in
\* exactly one sample of the profile, with its count as the value, and is no
\* longer in the sample cache.
C4_DrainedWithTraceEmittedOnce ==
  phase = "built" =>
    \A h \in LruKeys(drained) :
      LruLive(traces, h) =>
        /\ Cardinality(SamplesOf(h)) = 1
        /\ \A n \in SamplesOf(h) :
             profile.sample[n].value = <<LruValue(drained, h).count>>
        /\ ~LruLive(samples, h)

C4_Witness ==
  /\ phase = "built"
  /\ \E h \in LruKeys(drained) :
       LruLive(traces, h) /\ Cardinality(SamplesOf(h)) = 1 /\ ~LruLive(samples, h)

\* C5: after a round without concurrent ingestion, every counter that was
\* in the sample cache at drain time and whose hash has no traces entry is
\* in no sample of the profile and is back in the sample cache with the
\* count and the timestamps it had.
C5_DrainedWithoutTracePutBack ==
  phase = "built" =>
    \A h \in LruKeys(drained) :
      ~LruLive(traces, h) =>
        /\ SamplesOf(h) = {}
        /\ LruLive(samples, h)
        /\ LruValue(samples, h) = LruValue(drained, h)

C5_Witness ==
  /\ phase = "built"
  /\ \E h \in LruKeys(drained) :
       ~LruLive(traces, h) /\ LruLive(samples, h) /\ SamplesOf(h) = {}

\* C6: a counter whose hash has had a count call but never a frames call
\* when a round runs is not in the profile of that round and stays in the
\* sample cache with its count and timestamps.
C6_CountBeforeFramesHeldBack ==
  phase = "built" =>
    \A h \in LruKeys(drained) :
      h \notin everShaped =>
        /\ SamplesOf(h) = {}
        /\ LruLive(samples, h)
        /\ LruValue(samples, h) = LruValue(drained, h)

\* The traces entry one frames call and count calls with labels l make.
Merged(h, l) ==
  [files |-> TraceFiles(h), linenos |-> TraceLinenos(h),
   frameTypes |-> TraceFrameTypes(h), comm |-> l.comm, podName |-> l.podName,
   podNamespace |-> l.podNamespace, containerName |-> l.containerName,
   apmServiceName |-> ""]

\* C8: a traces entry that has had, since it was created, a frames call and
\* a count call, in either order, holds the frames of the frames call and
\* the labels of the count call.
C8_MergeOrderIndependent ==
  \A h \in Hashes :
    (LruLive(traces, h) /\ applied[h].shape /\ applied[h].labels \in LabelChoices)
      => LruValue(traces, h) = Merged(h, applied[h].labels)

C8_Witness ==
  \E g, h \in Hashes :
    /\ LruLive(traces, g) /\ applied[g].first = "shape"
    /\ applied[g].labels \in LabelChoices
    /\ LruLive(traces, h) /\ applied[h].first = "count" /\ applied[h].shape
    /\ LruValue(traces, g) = Merged(g, applied[g].labels)
    /\ LruValue(traces, h) = Merged(h, applied[h].labels)

(***************************************************************************)
(* Claims about rounds that overlap ingestion, checked under SpecConc.     *)
(***************************************************************************)
\* The count the sample cache holds for hash h.
Held(h) == IF LruLive(samples, h) THEN LruValue(samples, h).count ELSE 0

\* C7: whenever no ReportCountForTrace call and no round is under way, for
\* every hash the values emitted so far plus the count held in the sample
\* cache equal the counts ingested so far.
C7_CountsConserved ==
  (ingest.pc = "idle" /\ drain.pc = "idle") =>
    \A h \in Hashes : emitted[h] + Held(h) = ingested[h]

(***************************************************************************)
(* Claims about ReportFallbackSymbol, checked under SpecFallback.          *)
(***************************************************************************)
\* C9: the symbol stored for a frame changes only by the Add of a call
\* whose Peek came before that symbol was stored; a call that starts once
\* a symbol is stored leaves it as it is.
C9_FirstWriterWins ==
  [][\A frameID \in FrameIDs :
       (/\ LruLive(fallbackSymbols, frameID)
        /\ LruLive(fallbackSymbols', frameID)
        /\ LruValue(fallbackSymbols', frameID) # LruValue(fallbackSymbols, frameID))
       => \E t \in Threads : /\ fb[t].pc = "add"
                             /\ fb[t].frameID = frameID
                             /\ fb[t].overtaken
                             /\ fb'[t].pc = "done"]_vars

C9_Witness ==
  \E t \in Threads :
    /\ fb[t].pc = "done"
    /\ fb[t].found
    /\ LruLive(fallbackSymbols, fb[t].frameID)
    /\ LruValue(fallbackSymbols, fb[t].frameID) # fb[t].symbol

(***************************************************************************)
(* Claims about FrameMetadata, checked under SpecFrames.                   *)
(***************************************************************************)
\* The frames cache c with the maps m holds source information for the
\* address a of file f.
FramePresent(c, m, f, a) == LruLive(c, f) /\ a \in DOMAIN m[LruValue(c, f)]

FramePath(c, m, f, a) == m[LruValue(c, f)][a].filePath

\* C10: no step turns a non-empty file path stored for a file and an
\* address into an empty one.
C10_PathNeverEmptied ==
  [][\A f \in FileIDs, a \in Addrs :
       (FramePresent(frames, maps, f, a) /\ FramePath(frames, maps, f, a) # "")
       => ~(FramePresent(frames', maps', f, a)
            /\ FramePath(frames', maps', f, a) = "")]_vars

(***************************************************************************)
(* Claims about the timestamps of a profile, checked under SpecReport.     *)
(***************************************************************************)
\* The occurrence timestamps, in seconds, of the samples of the profile.
EmittedTimestamps ==
  UNION {{profile.sample[n].timestamps[i] \div 1000 :
            i \in 1..Len(profile.sample[n].timestamps)} :
         n \in 1..Len(profile.sample)}

\* C20: for every profile with samples, the start timestamp getProfile
\* returns is the least and the end timestamp the greatest of the
\* occurrence timestamps of its samples.
C20_StartEndAreMinMax ==
  (phase = "built" /\ Len(profile.sample) > 0) =>
    /\ startTS \in EmittedTimestamps
    /\ endTS \in EmittedTimestamps
    /\ \A ts \in EmittedTimestamps : startTS <= ts /\ ts <= endTS


\* The in-flight marker of f is set.
Marked(f) == LruLive(singleflight, f) /\ LruValue(singleflight, f)

\* C14: whenever Upload starts an attempt for a file the in-flight marker of
\* the file is set in that very step, and the marker is never set while no
\* goroutine of an attempt for the file is left, whichever way the attempt
\* ended.
C14_MarkerSetThenCleared ==
  /\ [][\A t \in Tasks, f \in FileIDs :
          (task[t].pc = "free" /\ task'[t].pc = "authorize"
             /\ task'[t].file = f)
            => Marked(f)']_vars
  /\ [](\A f \in FileIDs :
          Marked(f) => \E t \in Tasks :
                         task[t].file = f /\ task[t].pc \in AttemptPcs \cup {"exit"})

C14_Witness ==
  \E f \in FileIDs :
    /\ LruLive(singleflight, f)
    /\ ~LruValue(singleflight, f)
    /\ singleflight[LruPos(singleflight, f)].by = "transient"
    /\ \A t \in Tasks : task[t].file # f

\* C15: an Upload call with a non-empty build ID made after the last attempt
\* for its file failed transiently, with no attempt running and nothing in
\* the retry cache for the file, does not return without starting an attempt.
C15_RetryAfterTransient ==
  \A c \in Callers : call[c].after = "transient" => call[c].pc # "done"

\* C16: an attempt that ends denied for another reason than upload in
\* progress, without instructions, with an unsupported strategy or
\* acknowledged leaves a do-not-retry entry without expiry for its file, and
\* an Upload call made while such an entry is in the retry cache returns
\* without starting an attempt.
C16_DurableOutcomeStopsRetries ==
  /\ [][\A t \in Tasks :
          (task[t].pc \in AttemptPcs \ {"ret"} /\ task'[t].pc = "ret"
             /\ task'[t].out = "durable")
            => DurableEntry(task[t].file)']_vars
  /\ [](\A c \in Callers : call[c].durable => call[c].pc = "done")

C16_Witness ==
  \E c \in Callers :
    /\ call[c].durable
    /\ call[c].pc = "done"
    /\ \A t \in Tasks : task[t].pc = "free"

\* C17: an Upload call with an empty build ID returns at once and leaves the
\* retry cache, the in-flight cache and the tasks as they were.
C17_EmptyBuildIDNoOp ==
  [][\A c \in Callers :
       (call[c].pc = "idle" /\ call'[c].pc # "idle" /\ call'[c].empty)
         => /\ call'[c].pc = "done"
            /\ retry' = retry
            /\ singleflight' = singleflight
            /\ task' = task]_vars

C17_Witness ==
  \E c \in Callers :
    /\ call[c].pc = "done"
    /\ call[c].empty
    /\ call[c].file \notin LruKeySet(retry)
    /\ call[c].file \notin LruKeySet(singleflight)


\* A tick ends: reportOTLPProfile returns to the tick loop.
TickEnds == phase = "built" /\ phase' = "idle"

\* C13: a tick whose profile holds no sample ends without an export call.
C13_EmptySnapshotNotExported ==
  [][(TickEnds /\ Len(profile.sample) = 0) => driver'.last = "skipped"]_vars

C13_Witness ==
  /\ driver.last = "skipped"
  /\ driver.loop = "select"
  /\ Len(samples) > 0

\* C18: a tick whose export fails leaves the tick loop at its select, ready
\* for the next tick; every tick with a profile that holds samples, also
\* after a failure, ends with an export call; and the tick loop has returned
\* only if Stop was called or the context was cancelled.
C18_FailedExportKeepsLoop ==
  /\ [][(TickEnds /\ driver'.last = "failed") => driver'.loop = "select"]_vars
  /\ [][(TickEnds /\ Len(profile.sample) > 0)
          => driver'.last \in {"sent", "failed"}]_vars
  /\ [](driver.loop = "exited" => (driver.stopped \/ driver.cancelled))

C18_Witness ==
  /\ driver.failed
  /\ driver.last = "sent"
  /\ driver.loop = "select"
  /\ ~driver.stopped
  /\ ~driver.cancelled

\* C19: once Stop was called the tick loop and the shutdown watcher return,
\* the reporting context is cancelled and the connection is closed; the
\* connection is never closed twice; and no export call is made after the
\* tick loop has returned.
C19_StopShutsDown ==
  /\ driver.stopped ~> (/\ driver.loop = "exited"
                        /\ driver.watcher = "exited"
                        /\ driver.cancelled
                        /\ driver.closed = 1)
  /\ [](driver.closed <= 1)
  /\ [][driver.loop = "exited" => ~(TickEnds /\ Len(profile.sample) > 0)]_vars

C19_Witness ==
  /\ driver.stopped
  /\ driver.loop = "exited"
  /\ driver.watcher = "exited"
  /\ driver.closed = 1
  /\ ~driver.fatal
  /\ driver.last = "sent"


\* C11: in every profile the string table starts with the empty string and
\* holds no string twice, the function table holds no pair of name and file
\* name twice, and the names of the functions are entries of the string
\* table.
C11_TablesInjective ==
  phase = "built" =>
    /\ Len(profile.stringTable) > 0
    /\ profile.stringTable[1] = ""
    /\ \A i, j \in 1..Len(profile.stringTable) :
         profile.stringTable[i] = profile.stringTable[j] => i = j
    /\ \A i, j \in 1..Len(profile.function) :
         profile.function[i] = profile.function[j] => i = j
    /\ \A i \in 1..Len(profile.function) :
         /\ profile.function[i].name \in 0..(Len(profile.stringTable) - 1)
         /\ profile.function[i].filename \in 0..(Len(profile.stringTable) - 1)

C11_Witness ==
  /\ phase = "built"
  /\ Len(profile.sample) = 2
  /\ Len(profile.function) >= 3
  /\ \E i \in 1..Len(profile.function) :
       profile.function[i].name = profile.function[i].filename

\* The locations of kernel frames of sample n of the profile.
KernelLocations(n) ==
  {i \in (profile.sample[n].locationsStartIndex + 1)..
         (profile.sample[n].locationsStartIndex
            + profile.sample[n].locationsLength) :
     profile.stringTable[profile.location[i].typeIndex + 1] = "kernel"}

\* C12: in every profile two kernel frames of one sample with the same file
\* and address have the same function index in their line records.
C12_SameKernelFrameSameFunction ==
  phase = "built" =>
    \A n \in 1..Len(profile.sample) :
      \A i, j \in KernelLocations(n) :
        (/\ profile.location[i].address = profile.location[j].address
         /\ profile.location[i].mappingIndex = profile.location[j].mappingIndex)
          => profile.location[i].line = profile.location[j].line


\* The sample of hash h in the profile is as C21 describes it: the counts
\* and timestamps reported for h, the frames of its traces entry, and, when
\* it is the first sample and its first frame is native, the first mapping
\* with the file name of the executable.
C21_SampleOf(h) ==
  /\ Cardinality(SamplesOf(h)) = 1
  /\ \A n \in SamplesOf(h) :
       LET smp == profile.sample[n]
           trace == LruValue(traces, h)
       IN /\ smp.value = <<reported[h].count>>
          /\ smp.timestamps = [i \in 1..Len(reported[h].timestamps) |->
                                 reported[h].timestamps[i] * 1000]
          /\ smp.locationsLength = Len(trace.frameTypes)
          /\ (n = 1 /\ trace.frameTypes[1] = "native") =>
               /\ profile.location[1].mappingIndex = 1
               /\ profile.stringTable[profile.mapping[1].filename + 1] =
                    IF LruLive(executables, trace.files[1])
                    THEN LruValue(executables, trace.files[1]).fileName
                    ELSE "UNKNOWN"

C22_ConcurrentMergeKeepsBoth ==
  (shaping.pc = "idle" /\ ingest.pc # "tracesAdd") =>
    \A h \in Hashes :
      (LruLive(traces, h) /\ applied[h].shape
         /\ applied[h].labels \in LabelChoices)
        => LruValue(traces, h) = Merged(h, applied[h].labels)


C24_RemoteStepsInOrder ==
  /\ [][\A t \in Tasks :
          task'[t].pc # task[t].pc =>
            /\ task'[t].pc = "authorize" => task[t].pc = "free"
            /\ task'[t].pc = "materialize" => task[t].pc = "authorize"
            /\ task'[t].pc = "extract" => task[t].pc = "materialize"
            /\ task'[t].pc = "initiate" =>
                 task[t].pc \in {"materialize", "extract"}
            /\ task'[t].pc = "put" => task[t].pc = "initiate"
            /\ task'[t].pc = "finish" => task[t].pc = "put"]_vars
  /\ [](\A t \in Tasks :
          /\ task[t].pc = "materialize" => task[t].answer = "allow"
          /\ task[t].pc = "initiate" => task[t].answer = "data"
          /\ task[t].pc = "put" => task[t].answer = "signedurl"
          /\ task[t].pc = "finish" => task[t].answer = "2xx")
  /\ [][\A t \in Tasks :
          (task'[t].answer = "finished" /\ task[t].answer # "finished")
            => /\ task[t].pc = "finish"
               /\ task[t].answer = "2xx"
               /\ DurableEntry(task[t].file)']_vars

C24_Witness ==
  \E t \in Tasks :
    /\ task[t].pc = "ret"
    /\ task[t].answer = "finished"
    /\ DurableEntry(task[t].file)


\* C25: an attempt that finds its payload empty returns before the initiate
\* call; with keepTextSection it has then stored a do-not-retry entry without
\* expiry, and without keepTextSection the empty file is gone from the cache
\* directory and a do-not-retry entry with the cooldown lifetime is stored.
C25_EmptyPayloadRecorded ==
  [][\A t \in Tasks, f \in FileIDs :
       (task[t].file = f /\ task[t].answer # "empty"
          /\ task'[t].answer = "empty")
         => /\ task'[t].pc = "ret"
            /\ IF keepTextSection
               THEN DurableEntry(f)'
               ELSE /\ cachedFile'[f] = "absent"
                    /\ LruLive(retry', f)
                    /\ ~LruValue(retry', f)
                    /\ retry'[LruPos(retry', f)].timed
                    /\ retry'[LruPos(retry', f)].left = Cooldown]_vars


\* C28: in both modes and whichever way an attempt ends, the executable at
\* the path given to Upload is never deleted: the only file an attempt
\* removes is the one in the cache directory.
C28_OriginalNeverDeleted ==
  [][\A f \in FileIDs : origRemoved'[f] = origRemoved[f]]_vars


\* C26: in every profile all indices are valid.  Every string index is below
\* the size of the string table; the location of an abort frame has mapping
\* index 0 and no line, every other location has a mapping index in
\* 1..#mappings, and it is the mapping of the file of its frame; no two
\* mappings are of the same file and every mapping is referred to, so there
\* is exactly one mapping per file referred to; every line has a function
\* index in 1..#functions.
C26_IndicesValid ==
  phase = "built" =>
    LET strings == 0..(Len(profile.stringTable) - 1)
        FileOf(m) == profile.stringTable[profile.mapping[m].buildId + 1]
    IN /\ \A i \in 1..Len(profile.location) :
            LET loc == profile.location[i]
            IN /\ loc.typeIndex \in strings
               /\ IF profile.stringTable[loc.typeIndex + 1] = "abort-marker"
                  THEN loc.mappingIndex = 0 /\ loc.line = <<>>
                  ELSE loc.mappingIndex \in 1..Len(profile.mapping)
               /\ \A l \in 1..Len(loc.line) :
                    loc.line[l].functionIndex \in 1..Len(profile.function)
       /\ \A m \in 1..Len(profile.mapping) :
            /\ profile.mapping[m].filename \in strings
            /\ profile.mapping[m].buildId \in strings
            /\ \E i \in 1..Len(profile.location) :
                 profile.location[i].mappingIndex = m
            /\ \A m2 \in 1..Len(profile.mapping) :
                 FileOf(m) = FileOf(m2) => m = m2
       /\ \A i \in 1..Len(profile.function) :
            /\ profile.function[i].name \in strings
            /\ profile.function[i].filename \in strings
       /\ \A n \in 1..Len(profile.sample) :
            LET smp == profile.sample[n]
            IN /\ smp.stacktraceIdIndex \in strings
               /\ \A l \in 1..Len(smp.label) :
                    smp.label[l].key \in strings /\ smp.label[l].str \in strings
               /\ \A h \in Hashes, j \in 1..smp.locationsLength :
                    (/\ n \in SamplesOf(h)
                     /\ smp.locationsLength = Len(TraceFrameTypes(h))
                     /\ TraceFrameTypes(h)[j] # "abort-marker")
                      => FileOf(profile.location[smp.locationsStartIndex + j]
                                  .mappingIndex)
                           = FileString(TraceFiles(h)[j])
       /\ \A i \in 1..Len(profile.sampleType) :
            /\ profile.sampleType[i].type \in strings
            /\ profile.sampleType[i].unit \in strings
       /\ profile.periodType.type \in strings
       /\ profile.periodType.unit \in strings

\* A profile of two samples with native, kernel, interpreted and abort
\* frames of two files.
C26_Witness ==
  /\ phase = "built"
  /\ Len(profile.sample) = 2
  /\ Len(profile.mapping) = 2
  /\ Len(profile.location) = 6
  /\ \E i \in 1..Len(profile.location) : profile.location[i].mappingIndex = 0
  /\ Len(profile.function) >= 2


\* C27: in every profile the location ranges of the samples partition the
\* location array: the range of a sample starts where the ranges of the
\* samples before it end, the lengths add up to the number of locations, and
\* locationIndices is the identity 0..n-1 over the locations.
C27_RangesPartitionLocations ==
  phase = "built" =>
    /\ \A n \in 1..Len(profile.sample) :
         profile.sample[n].locationsStartIndex =
           IF n = 1 THEN 0
           ELSE profile.sample[n - 1].locationsStartIndex
                  + profile.sample[n - 1].locationsLength
    /\ Len(profile.location) =
         IF profile.sample = <<>> THEN 0
         ELSE profile.sample[Len(profile.sample)].locationsStartIndex
                + profile.sample[Len(profile.sample)].locationsLength
    /\ profile.locationIndices = [n \in 1..Len(profile.location) |-> n - 1]

\* A profile whose second sample starts behind the three locations of the
\* first.
C27_Witness ==
  /\ phase = "built"
  /\ Len(profile.sample) = 2
  /\ profile.sample[1].locationsLength = 3
  /\ profile.sample[2].locationsStartIndex = 3
  /\ profile.sample[2].locationsLength = 3
  /\ Len(profile.locationIndices) = 6


\* C29: every profile that is handed to the export, built from a snapshot
\* with samples and at least one occurrence timestamp, has an end time that
\* is not before its start time and a duration above zero.
C29_ExportedTimesOrdered ==
  (phase = "built" /\ ~NoSamples(profile) /\ EmittedTimestamps # {}) =>
    /\ endTS >= startTS
    /\ DurationSent(profile) > 0

====
